---- MODULE Spec2Model ----
(***************************************************************************)
(* The NVENC binary patcher of nvidia_driver_setup/nvidia/patches.py:      *)
(* the anchor table, the scanner/patcher _patch_binary, the backup store   *)
(* (_create_backup, _restore_backup) and the orchestrator                  *)
(* _apply_nvenc_patch, with the target library, the backup directory and   *)
(* the linker cache as the state.                                          *)
(*                                                                         *)
(* Bytes are integers 0..255; a file's content is a sequence of bytes.     *)
(* Hex strings of the source are sequences of hex digits 0..15, decoded   *)
(* by fromhex as bytes.fromhex decodes them.  Offsets are 0-based as in    *)
(* the source; Slice and SliceAssign are Python's slice read and the      *)
(* bytearray slice assignment.                                             *)
(***************************************************************************)
EXTENDS Integers, Sequences, FiniteSets, TLC

\* ------------------------------------------------------------------ bounds

\* Chunks per file in the family of files _patch_binary is called on directly.
MaxChunks == 3
\* Invocations of _apply_nvenc_patch in one behaviour.
MaxRuns == 2
\* Direct _patch_binary calls on one file in one behaviour.
MaxCalls == 2
\* A failed write leaves a prefix of the buffer whose length is a multiple of this.
IOBlock == 8
\* Chunks per library file an invocation of _apply_nvenc_patch is run on.
TargetChunks == 1

\* ------------------------------------------------------- the anchor table

\* _ANCHORS, each hex string as its sequence of hex digits:
\*   "feff4189c685c0" skip 2 marker "feff29c04189c6"
\*       "4189c685c00f85a6000000" -> "29c04189c690909090909090"  r14d+JNE
\*       "4189c685c0"             -> "29c04189c6"                r14d
\*   "feff85c04189c4" skip 2 marker "feff29c04189c4"
\*       "85c04189c4" -> "29c04189c4"                            r12d-test-first
\*   "feff4189c485c0" skip 2 marker "feff29c04189c4"
\*       "4189c485c00f85" -> "29c04189c49090"                    r12d+JNE
\*       "4189c485c0"     -> "29c04189c4"                        r12d
_ANCHORS ==
  << [ anchor |-> <<15,14,15,15,4,1,8,9,12,6,8,5,12,0>>,
       skip |-> 2,
       patched_marker |-> <<15,14,15,15,2,9,12,0,4,1,8,9,12,6>>,
       variants |-> <<
         [ old_hex |-> <<4,1,8,9,12,6,8,5,12,0,0,15,8,5,10,6,0,0,0,0,0,0>>,
           new_hex |-> <<2,9,12,0,4,1,8,9,12,6,9,0,9,0,9,0,9,0,9,0,9,0,9,0>>,
           label |-> "r14d+JNE" ],
         [ old_hex |-> <<4,1,8,9,12,6,8,5,12,0>>,
           new_hex |-> <<2,9,12,0,4,1,8,9,12,6>>,
           label |-> "r14d" ] >> ],
     [ anchor |-> <<15,14,15,15,8,5,12,0,4,1,8,9,12,4>>,
       skip |-> 2,
       patched_marker |-> <<15,14,15,15,2,9,12,0,4,1,8,9,12,4>>,
       variants |-> <<
         [ old_hex |-> <<8,5,12,0,4,1,8,9,12,4>>,
           new_hex |-> <<2,9,12,0,4,1,8,9,12,4>>,
           label |-> "r12d-test-first" ] >> ],
     [ anchor |-> <<15,14,15,15,4,1,8,9,12,4,8,5,12,0>>,
       skip |-> 2,
       patched_marker |-> <<15,14,15,15,2,9,12,0,4,1,8,9,12,4>>,
       variants |-> <<
         [ old_hex |-> <<4,1,8,9,12,4,8,5,12,0,0,15,8,5>>,
           new_hex |-> <<2,9,12,0,4,1,8,9,12,4,9,0,9,0>>,
           label |-> "r12d+JNE" ],
         [ old_hex |-> <<4,1,8,9,12,4,8,5,12,0>>,
           new_hex |-> <<2,9,12,0,4,1,8,9,12,4>>,
           label |-> "r12d" ] >> ] >>

\* ------------------------------------------------------------ byte helpers

\* bytes.fromhex: two hex digits per byte.
fromhex(h) == [i \in 1..(Len(h) \div 2) |-> 16 * h[2 * i - 1] + h[2 * i]]

MinOf(S) == CHOOSE x \in S : \A y \in S : x <= y

\* data[a:b] of Python: 0-based, end-exclusive, clamped to the data.
Slice(data, a, b) ==
  LET hi == IF b < Len(data) THEN b ELSE Len(data)
  IN  IF a >= hi THEN <<>> ELSE SubSeq(data, a + 1, hi)

\* The slice assignment left out: the buffer stays as read.
SliceAssignNone(data, a, b, new) == data

\* data[a:b] = new on a bytearray: the slice is replaced, whatever new's length.
SliceAssign(data, a, b, new) ==
  Slice(data, 0, a) \o new \o Slice(data, b, Len(data))

\* data.find(pattern, start): the lowest offset >= start of an occurrence, or -1.
Find(data, pattern, start) ==
  LET hits == {i \in start..(Len(data) - Len(pattern)) :
                  SubSeq(data, i + 1, i + Len(pattern)) = pattern}
  IN  IF hits = {} THEN -1 ELSE MinOf(hits)

RECURSIVE FindLoop(_, _, _, _)
FindLoop(data, pattern, start, positions) ==
  LET pos == Find(data, pattern, start)
  IN  IF pos = -1 THEN positions
      ELSE FindLoop(data, pattern, pos + 1, Append(positions, pos))

\* The search stopped at the first occurrence.
FindFirstOnly(data, pattern) ==
  LET pos == Find(data, pattern, 0)
  IN  IF pos = -1 THEN <<>> ELSE <<pos>>

_find_all_occurrences(data, pattern) == FindLoop(data, pattern, 0, <<>>)

\* ------------------------------------------------- _patch_binary, the scan

\* PatchResult with the first two fields taken in the other order.
PatchResultSwapped(s, a, l, o, m) ==
  [success |-> a, already_patched |-> s, variant_label |-> l, offset |-> o,
   message |-> m]

PatchResult(s, a, l, o, m) ==
  [success |-> s, already_patched |-> a, variant_label |-> l, offset |-> o,
   message |-> m]

NoResult == PatchResult(FALSE, FALSE, "", -1, "")

\* ScanAnchors taking the first hit of an anchor that has several.
RECURSIVE ScanAnchorsFirstHit(_, _)
ScanAnchorsFirstHit(data, i) ==
  IF i > Len(_ANCHORS) THEN [kind |-> "none", idx |-> 0, pos |-> -1]
  ELSE LET entry == _ANCHORS[i]
           hits == _find_all_occurrences(data, fromhex(entry.anchor))
       IN  IF Len(hits) >= 1
             THEN [kind |-> "matched", idx |-> i, pos |-> hits[1]]
           ELSE IF Find(data, fromhex(entry.patched_marker), 0) # -1
             THEN [kind |-> "already", idx |-> i, pos |-> -1]
           ELSE ScanAnchorsFirstHit(data, i + 1)

\* ScanAnchors going through the table from its last entry to its first.
RECURSIVE ScanAnchorsReversed(_, _)
ScanAnchorsReversed(data, i) ==
  IF i > Len(_ANCHORS) THEN [kind |-> "none", idx |-> 0, pos |-> -1]
  ELSE LET m == Len(_ANCHORS) + 1 - i
           entry == _ANCHORS[m]
           hits == _find_all_occurrences(data, fromhex(entry.anchor))
       IN  IF Len(hits) = 1
             THEN [kind |-> "matched", idx |-> m, pos |-> hits[1]]
           ELSE IF Find(data, fromhex(entry.patched_marker), 0) # -1
             THEN [kind |-> "already", idx |-> m, pos |-> -1]
           ELSE ScanAnchorsReversed(data, i + 1)

\* ScanAnchors without the marker test inside the loop.
RECURSIVE ScanAnchorsNoMarker(_, _)
ScanAnchorsNoMarker(data, i) ==
  IF i > Len(_ANCHORS) THEN [kind |-> "none", idx |-> 0, pos |-> -1]
  ELSE LET entry == _ANCHORS[i]
           hits == _find_all_occurrences(data, fromhex(entry.anchor))
       IN  IF Len(hits) = 1
             THEN [kind |-> "matched", idx |-> i, pos |-> hits[1]]
           ELSE ScanAnchorsNoMarker(data, i + 1)

\* The first loop over _ANCHORS from entry i on: the first entry with exactly
\* one hit is matched; an entry with zero or several hits whose patched marker
\* is in the data ends the scan as already patched.
RECURSIVE ScanAnchors(_, _)
ScanAnchors(data, i) ==
  IF i > Len(_ANCHORS) THEN [kind |-> "none", idx |-> 0, pos |-> -1]
  ELSE LET entry == _ANCHORS[i]
           hits == _find_all_occurrences(data, fromhex(entry.anchor))
       IN  IF Len(hits) = 1
             THEN [kind |-> "matched", idx |-> i, pos |-> hits[1]]
           ELSE IF Find(data, fromhex(entry.patched_marker), 0) # -1
             THEN [kind |-> "already", idx |-> i, pos |-> -1]
           ELSE ScanAnchors(data, i + 1)

\* The second sweep, taken when no anchor matched: any entry's marker.
MarkerSweep(data) ==
  \E i \in 1..Len(_ANCHORS) :
     Find(data, fromhex(_ANCHORS[i].patched_marker), 0) # -1

\* TryVariants with the comparison cut to the first bytes common to every
\* variant of the anchor (a prefix test in place of the exact one).
RECURSIVE TryVariantsPrefix(_, _, _, _)
TryVariantsPrefix(data, entry, patch_start, k) ==
  IF k > Len(entry.variants) THEN [kind |-> "none", k |-> 0]
  ELSE LET old_bytes == fromhex(entry.variants[k].old_hex)
           new_bytes == fromhex(entry.variants[k].new_hex)
           n == Len(fromhex(entry.anchor)) - entry.skip
           actual == Slice(data, patch_start, patch_start + n)
       IN  IF actual = Slice(old_bytes, 0, n) THEN [kind |-> "match", k |-> k]
           ELSE IF actual = Slice(new_bytes, 0, n) THEN [kind |-> "already", k |-> k]
           ELSE TryVariantsPrefix(data, entry, patch_start, k + 1)

\* TryVariants going through the variants from the last of the table to the
\* first.
RECURSIVE TryVariantsReversed(_, _, _, _)
TryVariantsReversed(data, entry, patch_start, k) ==
  IF k > Len(entry.variants) THEN [kind |-> "none", k |-> 0]
  ELSE LET m == Len(entry.variants) + 1 - k
           old_bytes == fromhex(entry.variants[m].old_hex)
           new_bytes == fromhex(entry.variants[m].new_hex)
           actual == Slice(data, patch_start, patch_start + Len(old_bytes))
       IN  IF actual = old_bytes THEN [kind |-> "match", k |-> m]
           ELSE IF actual = new_bytes THEN [kind |-> "already", k |-> m]
           ELSE TryVariantsReversed(data, entry, patch_start, k + 1)

\* The variant loop trying the first variant of the entry only.
TryVariantsFirstOnly(data, entry, patch_start, k) ==
  IF k > 1 \/ k > Len(entry.variants) THEN [kind |-> "none", k |-> 0]
  ELSE LET old_bytes == fromhex(entry.variants[k].old_hex)
           new_bytes == fromhex(entry.variants[k].new_hex)
           actual == Slice(data, patch_start, patch_start + Len(old_bytes))
       IN  IF actual = old_bytes THEN [kind |-> "match", k |-> k]
           ELSE IF actual = new_bytes THEN [kind |-> "already", k |-> k]
           ELSE [kind |-> "none", k |-> 0]

\* The loop over the matched anchor's variants from variant k on.
RECURSIVE TryVariants(_, _, _, _)
TryVariants(data, entry, patch_start, k) ==
  IF k > Len(entry.variants) THEN [kind |-> "none", k |-> 0]
  ELSE LET old_bytes == fromhex(entry.variants[k].old_hex)
           new_bytes == fromhex(entry.variants[k].new_hex)
           actual == Slice(data, patch_start, patch_start + Len(old_bytes))
       IN  IF actual = old_bytes THEN [kind |-> "match", k |-> k]
           ELSE IF actual = new_bytes THEN [kind |-> "already", k |-> k]
           ELSE TryVariants(data, entry, patch_start, k + 1)

\* What _patch_binary decides from the bytes it read: the result it will
\* return, whether it goes on to write, and the buffer it would write.
\* anchor, pos, variant record the selection (0, -1, 0 when there is none).
PatchPlan(data, dry_run) ==
  LET scan == ScanAnchors(data, 1)
      nosel(res) == [result |-> res, write |-> FALSE, newdata |-> data,
                     anchor |-> 0, pos |-> -1, variant |-> 0]
  IN  IF scan.kind = "already"
        THEN nosel(PatchResult(TRUE, TRUE, "", -1, "already patched"))
      ELSE IF scan.kind = "none"
        THEN IF MarkerSweep(data)
               THEN nosel(PatchResult(TRUE, TRUE, "", -1, "already patched"))
               ELSE nosel(PatchResult(FALSE, FALSE, "", -1, "no unique anchor"))
      ELSE LET entry == _ANCHORS[scan.idx]
               patch_start == scan.pos + entry.skip
               v == TryVariants(data, entry, patch_start, 1)
               sel(res, w, nd) == [result |-> res, write |-> w, newdata |-> nd,
                                   anchor |-> scan.idx, pos |-> scan.pos,
                                   variant |-> v.k]
           IN  IF v.kind = "match"
                 THEN LET variant == entry.variants[v.k]
                          old_bytes == fromhex(variant.old_hex)
                          new_bytes == fromhex(variant.new_hex)
                      IN  IF dry_run
                            THEN sel(PatchResult(TRUE, FALSE, variant.label,
                                                 patch_start, "dry-run"),
                                     FALSE, data)
                            ELSE sel(PatchResult(TRUE, FALSE, variant.label,
                                                 patch_start, "patched"),
                                     TRUE,
                                     SliceAssign(data, patch_start,
                                                 patch_start + Len(old_bytes),
                                                 new_bytes))
               ELSE IF v.kind = "already"
                 THEN sel(PatchResult(TRUE, TRUE, entry.variants[v.k].label,
                                      patch_start, "already patched"),
                          FALSE, data)
               ELSE sel(PatchResult(FALSE, FALSE, "", patch_start,
                                    "no variant matched"),
                        FALSE, data)

\* ------------------------------------------------------------------- state

\* lib[v]     the file libnvidia-encode.so.<v> that _find_encode_library finds
\* backup[v]  the file _BACKUP_DIR/libnvidia-encode.so.<v>.orig
\* ldcache    the library files as of the last ldconfig run
\* inv[p]     the frame of invocation p: its position, arguments and locals
\* runs       the number of invocations (or direct calls) started so far
\* prev       what the invocation before the current one was and did
\* det        the frame of a _detect_driver_version call: its position, its
\*            argument, what the probes give, the probes run and the return
\* loc        the frame of a _find_encode_library call: the directories it
\*            looks at, its position and its return
\* info       the frame of a get_nvenc_session_info call: what it detected
\*            and the dict it returns
VARIABLES lib, backup, ldcache, inv, runs, prev, det, loc, info

vars == <<lib, backup, ldcache, inv, runs, prev, det, loc, info>>

Procs == {1, 2}
\* Invocations are sequential unless a specification says otherwise.
SeqProcs == {1}

Versions == {"580.126.09", "570.86.16"}
NoVersion == ""

\* What readelf -d reports as SONAME; "" is a missing SONAME (None).
SonameOK == "libnvidia-encode.so.1"
SonameOther == "libnvidia-encode.so.0"

NoFile == [exists |-> FALSE, data |-> <<>>, soname |-> ""]
File(d, s) == [exists |-> TRUE, data |-> d, soname |-> s]

\* _verify_elf_soname reporting the expected SONAME for every file there is.
VerifySonameAlwaysFound(f) == IF f.exists THEN SonameOK ELSE ""

\* _verify_elf_soname: the SONAME readelf reports for the file, None if none.
_verify_elf_soname(f) == IF f.exists THEN f.soname ELSE ""

\* The prefixes a failed or interrupted write of buf can leave behind.
PartialWrites(buf) ==
  {Slice(buf, 0, n) : n \in {k \in 0..(Len(buf) - 1) : k % IOBlock = 0}}

\* What a failed shutil.copy2(src, dst) can leave at dst: dst as it was (the
\* copy never opened it) or a truncated copy of src.
CopyFailures(src, dst) ==
  {dst} \cup {File(d, "") : d \in PartialWrites(src.data)}

IdleFrame ==
  [pc |-> "idle", caller |-> "apply", dry_run |-> FALSE, rollback |-> FALSE,
   version |-> NoVersion, soname_before |-> "", soname_after |-> "",
   data |-> <<>>, plan |-> PatchPlan(<<>>, TRUE), result |-> NoResult,
   outcome |-> "", pre |-> NoFile, had_backup |-> FALSE,
   backup_ret |-> "none", restore_ret |-> "none", scanned |-> FALSE,
   wrote |-> FALSE, at_write |-> NoFile, ldconfig |-> FALSE,
   killed_at |-> ""]

NoPrev == [outcome |-> "", version |-> NoVersion, pre |-> NoFile,
           had_backup |-> FALSE, killed_at |-> ""]

\* ---------------------------------------------------- the families of files

\* The chunks files are built from: for every anchor and variant the anchor's
\* first skip bytes followed by the variant's before-bytes (an unpatched site),
\* every patched marker, and a filler byte.
SiteChunks ==
  UNION {{Slice(fromhex(_ANCHORS[i].anchor), 0, _ANCHORS[i].skip)
             \o fromhex(_ANCHORS[i].variants[k].old_hex) :
             k \in 1..Len(_ANCHORS[i].variants)} : i \in 1..Len(_ANCHORS)}

MarkerChunks == {fromhex(_ANCHORS[i].patched_marker) : i \in 1..Len(_ANCHORS)}

Chunks == SiteChunks \cup MarkerChunks \cup {<<144>>}

\* The files made of at most n chunks.
RECURSIVE Concats(_)
Concats(n) ==
  IF n = 0 THEN {<<>>}
  ELSE LET shorter == Concats(n - 1)
       IN  shorter \cup {f \o c : f \in shorter, c \in Chunks}

\* The library files an invocation of _apply_nvenc_patch can find.
Targets == Concats(TargetChunks)

\* -------------------------------------------------------------- the actions

Done(f, outcome) == [f EXCEPT !.pc = "done", !.outcome = outcome]

\* os.path.isfile(backup_file), in _create_backup and in _restore_backup.
BackupExists(version) == backup[version].exists

\* _restore_backup without the copy: ldconfig runs over the library as it is.
RestoreWithoutCopy(version, dry_run, ret) ==
  \/ /\ ~BackupExists(version)
     /\ ret = FALSE
     /\ UNCHANGED <<lib, ldcache>>
  \/ /\ BackupExists(version)
     /\ ret = TRUE
     /\ UNCHANGED lib
     /\ ldcache' = IF dry_run THEN ldcache ELSE lib

\* _restore_backup without the ldconfig run after the copy.
RestoreNoLdconfig(version, dry_run, ret) ==
  \/ /\ ~BackupExists(version)
     /\ ret = FALSE
     /\ UNCHANGED <<lib, ldcache>>
  \/ /\ BackupExists(version)
     /\ ret = TRUE
     /\ lib' = IF dry_run THEN lib ELSE [lib EXCEPT ![version] = backup[version]]
     /\ UNCHANGED ldcache

\* _restore_backup taking a missing backup for nothing to do.
RestoreMissingBackupOK(version, dry_run, ret) ==
  \/ /\ ~BackupExists(version)
     /\ ret = TRUE
     /\ UNCHANGED <<lib, ldcache>>
  \/ /\ BackupExists(version)
     /\ ret = TRUE
     /\ lib' = IF dry_run THEN lib ELSE [lib EXCEPT ![version] = backup[version]]
     /\ ldcache' = IF dry_run THEN ldcache ELSE lib'

\* _restore_backup(version, lib_path, dry_run) returning ret: no backup is an
\* error; a dry run changes nothing; else the backup is copied over the
\* library and ldconfig runs, or the copy fails.
_restore_backup(version, dry_run, ret) ==
  \/ /\ ~BackupExists(version)
     /\ ret = FALSE
     /\ UNCHANGED <<lib, ldcache>>
  \/ /\ BackupExists(version)
     /\ dry_run
     /\ ret = TRUE
     /\ UNCHANGED <<lib, ldcache>>
  \/ /\ BackupExists(version)
     /\ ~dry_run
     /\ ret = TRUE
     /\ lib' = [lib EXCEPT ![version] = backup[version]]
     /\ ldcache' = lib'
  \/ /\ BackupExists(version)
     /\ ~dry_run
     /\ ret = FALSE
     /\ \E f \in CopyFailures(backup[version], lib[version]) :
           lib' = [lib EXCEPT ![version] = f]
     /\ UNCHANGED ldcache

\* _apply_nvenc_patch from its entry to the located library: the GPU check,
\* _detect_driver_version and _find_encode_library.
Start(p) ==
  /\ inv[p].caller = "apply"
  /\ inv[p].pc \in {"idle", "done", "killed"}
  /\ runs < MaxRuns
  /\ runs' = runs + 1
  /\ prev' = IF inv[p].pc = "idle" THEN NoPrev
             ELSE [outcome |-> IF inv[p].pc = "killed" THEN "killed"
                               ELSE inv[p].outcome,
                   version |-> inv[p].version,
                   pre |-> inv[p].pre,
                   had_backup |-> inv[p].had_backup,
                   killed_at |-> inv[p].killed_at]
  /\ \E dry_run \in BOOLEAN, rollback \in BOOLEAN, professional \in BOOLEAN,
        driver_version \in Versions \cup {NoVersion} :
        LET f0 == [IdleFrame EXCEPT !.dry_run = dry_run, !.rollback = rollback]
            f1 == [f0 EXCEPT !.version = driver_version]
        IN  inv' = [inv EXCEPT ![p] =
              IF ~rollback /\ professional
                THEN Done(f0, "no patch needed")
              ELSE IF driver_version = NoVersion
                THEN Done(f0, "version undetected")
              ELSE IF ~lib[driver_version].exists
                THEN Done(f1, "library not found")
              ELSE [f1 EXCEPT !.pc = "verify_soname",
                              !.pre = lib[driver_version],
                              !.had_backup = backup[driver_version].exists]]
  /\ UNCHANGED <<lib, backup, ldcache, det, loc, info>>

\* The pre-flight SONAME check warning of a missing SONAME and going on.
VerifySonameGoesOn(p) ==
  /\ inv[p].pc = "verify_soname"
  /\ LET f == inv[p]
         soname_before == _verify_elf_soname(lib[f.version])
         g == [f EXCEPT !.soname_before = soname_before]
     IN  inv' = [inv EXCEPT ![p] =
           IF f.rollback THEN [g EXCEPT !.pc = "rollback"]
           ELSE [g EXCEPT !.pc = "backup_check"]]
  /\ UNCHANGED <<lib, backup, ldcache, runs, prev, det, loc, info>>

\* The pre-flight SONAME check and the branch to rollback mode.
VerifySoname(p) ==
  /\ inv[p].pc = "verify_soname"
  /\ LET f == inv[p]
         soname_before == _verify_elf_soname(lib[f.version])
         g == [f EXCEPT !.soname_before = soname_before]
     IN  inv' = [inv EXCEPT ![p] =
           IF soname_before = "" /\ ~f.rollback THEN Done(g, "soname missing")
           ELSE IF f.rollback THEN [g EXCEPT !.pc = "rollback"]
           ELSE [g EXCEPT !.pc = "backup_check"]]
  /\ UNCHANGED <<lib, backup, ldcache, runs, prev, det, loc, info>>

\* Rollback mode calling _restore_backup without handing dry_run on.
RollbackIgnoresDryRun(p) ==
  /\ inv[p].pc = "rollback"
  /\ \E ret \in BOOLEAN :
        /\ _restore_backup(inv[p].version, FALSE, ret)
        /\ LET f == inv[p]
               g == [f EXCEPT !.restore_ret = IF ret THEN "true" ELSE "false",
                              !.ldconfig = ret,
                              !.soname_after =
                                 IF ret /\ ~f.dry_run
                                   THEN _verify_elf_soname(lib'[f.version])
                                   ELSE ""]
           IN  inv' = [inv EXCEPT ![p] =
                 IF ret THEN Done(g, "rollback done")
                 ELSE Done(g, "rollback failed")]
  /\ UNCHANGED <<backup, runs, prev, det, loc, info>>

\* Rollback mode: _restore_backup and, after a live restore, the SONAME re-read.
Rollback(p) ==
  /\ inv[p].pc = "rollback"
  /\ \E ret \in BOOLEAN :
        /\ _restore_backup(inv[p].version, inv[p].dry_run, ret)
        /\ LET f == inv[p]
               g == [f EXCEPT !.restore_ret = IF ret THEN "true" ELSE "false",
                              !.ldconfig = ret /\ ~f.dry_run,
                              !.soname_after =
                                 IF ret /\ ~f.dry_run
                                   THEN _verify_elf_soname(lib'[f.version])
                                   ELSE ""]
           IN  inv' = [inv EXCEPT ![p] =
                 IF ret THEN Done(g, "rollback done")
                 ELSE Done(g, "rollback failed")]
  /\ UNCHANGED <<backup, runs, prev, det, loc, info>>

\* _create_backup without the test for an existing backup.
BackupCheckNoExistsTest(p) ==
  /\ inv[p].pc = "backup_check"
  /\ LET f == inv[p]
     IN  inv' = [inv EXCEPT ![p] =
           IF f.dry_run
             THEN [f EXCEPT !.backup_ret = "true", !.pc = "pb_read"]
             ELSE [f EXCEPT !.pc = "backup_copy"]]
  /\ UNCHANGED <<lib, backup, ldcache, runs, prev, det, loc, info>>

\* _create_backup without the dry-run test: a dry run copies too.
BackupCheckNoDryRunTest(p) ==
  /\ inv[p].pc = "backup_check"
  /\ LET f == inv[p]
     IN  inv' = [inv EXCEPT ![p] =
           IF BackupExists(f.version)
             THEN [f EXCEPT !.backup_ret = "true", !.pc = "pb_read"]
             ELSE [f EXCEPT !.pc = "backup_copy"]]
  /\ UNCHANGED <<lib, backup, ldcache, runs, prev, det, loc, info>>

\* _create_backup up to the copy: an existing backup or a dry run returns True.
BackupCheck(p) ==
  /\ inv[p].pc = "backup_check"
  /\ LET f == inv[p]
     IN  inv' = [inv EXCEPT ![p] =
           IF BackupExists(f.version) \/ f.dry_run
             THEN [f EXCEPT !.backup_ret = "true", !.pc = "pb_read"]
             ELSE [f EXCEPT !.pc = "backup_copy"]]
  /\ UNCHANGED <<lib, backup, ldcache, runs, prev, det, loc, info>>

\* The copy with its failure logged but not returned: the run goes on.
BackupCopyGoesOn(p) ==
  /\ inv[p].pc = "backup_copy"
  /\ LET f == inv[p]
     IN  \/ /\ backup' = [backup EXCEPT ![f.version] = lib[f.version]]
            /\ inv' = [inv EXCEPT ![p] =
                  [f EXCEPT !.backup_ret = "true", !.pc = "pb_read"]]
         \/ /\ \E b \in CopyFailures(lib[f.version], backup[f.version]) :
                  backup' = [backup EXCEPT ![f.version] = b]
            /\ inv' = [inv EXCEPT ![p] =
                  [f EXCEPT !.backup_ret = "false", !.pc = "pb_read"]]
  /\ UNCHANGED <<lib, ldcache, runs, prev, det, loc, info>>

\* The copy made only if the backup is still absent when the copy starts.
BackupCopyIfAbsent(p) ==
  /\ inv[p].pc = "backup_copy"
  /\ LET f == inv[p]
     IN  \/ /\ backup' = [backup EXCEPT ![f.version] =
                            IF BackupExists(f.version) THEN backup[f.version]
                            ELSE lib[f.version]]
            /\ inv' = [inv EXCEPT ![p] =
                  [f EXCEPT !.backup_ret = "true", !.pc = "pb_read"]]
         \/ /\ \E b \in CopyFailures(lib[f.version], backup[f.version]) :
                  backup' = [backup EXCEPT ![f.version] = b]
            /\ inv' = [inv EXCEPT ![p] =
                  Done([f EXCEPT !.backup_ret = "false"], "backup failed")]
  /\ UNCHANGED <<lib, ldcache, runs, prev, det, loc, info>>

\* _create_backup's shutil.copy2(lib_path, backup_file); a failure ends the run.
BackupCopy(p) ==
  /\ inv[p].pc = "backup_copy"
  /\ LET f == inv[p]
     IN  \/ /\ backup' = [backup EXCEPT ![f.version] = lib[f.version]]
            /\ inv' = [inv EXCEPT ![p] =
                  [f EXCEPT !.backup_ret = "true", !.pc = "pb_read"]]
         \/ /\ \E b \in CopyFailures(lib[f.version], backup[f.version]) :
                  backup' = [backup EXCEPT ![f.version] = b]
            /\ inv' = [inv EXCEPT ![p] =
                  Done([f EXCEPT !.backup_ret = "false"], "backup failed")]
  /\ UNCHANGED <<lib, ldcache, runs, prev, det, loc, info>>

\* _patch_binary from the read of the file to the decision: a result without
\* a write, or the patched buffer ready to be written back.
PbRead(p) ==
  /\ inv[p].pc = "pb_read"
  /\ LET f == inv[p]
         data == lib[f.version].data
         plan == PatchPlan(data, f.dry_run)
     IN  \/ inv' = [inv EXCEPT ![p] =
                [f EXCEPT !.pc = "pb_ret",
                          !.result = PatchResult(FALSE, FALSE, "", -1,
                                                 "cannot read")]]
         \/ inv' = [inv EXCEPT ![p] =
                IF plan.write
                  THEN [f EXCEPT !.pc = "pb_open", !.scanned = TRUE,
                                 !.plan = plan, !.data = plan.newdata]
                  ELSE [f EXCEPT !.pc = "pb_ret", !.scanned = TRUE,
                                 !.plan = plan, !.data = data,
                                 !.result = plan.result]]
  /\ UNCHANGED <<lib, backup, ldcache, runs, prev, det, loc, info>>

WriteFailed(f) ==
  PatchResult(FALSE, FALSE, f.plan.result.variant_label, f.plan.result.offset,
              "write failed")

\* open(lib_path, "wb"): the file is truncated, or the open fails.
PbOpen(p) ==
  /\ inv[p].pc = "pb_open"
  /\ LET f == inv[p]
     IN  \/ /\ lib' = [lib EXCEPT ![f.version] = File(<<>>, "")]
            /\ inv' = [inv EXCEPT ![p] =
                  [f EXCEPT !.pc = "pb_write", !.wrote = TRUE,
                            !.at_write = lib[f.version]]]
         \/ /\ UNCHANGED lib
            /\ inv' = [inv EXCEPT ![p] =
                  [f EXCEPT !.pc = "pb_ret", !.result = WriteFailed(f)]]
  /\ UNCHANGED <<backup, ldcache, runs, prev, det, loc, info>>

\* The SONAME readelf can report once the buffer has replaced a file whose
\* SONAME was s: the same, none, or another one.
SonameAfterWrite(s) == IF s = "" THEN {""} ELSE {s, "", SonameOther}

\* fh.write(data) and the close: the whole buffer, or a failure part-way.
PbWrite(p) ==
  /\ inv[p].pc = "pb_write"
  /\ LET f == inv[p]
     IN  \/ /\ \E s \in SonameAfterWrite(f.at_write.soname) :
                  lib' = [lib EXCEPT ![f.version] = File(f.data, s)]
            /\ inv' = [inv EXCEPT ![p] =
                  [f EXCEPT !.pc = "pb_ret", !.result = f.plan.result]]
         \/ /\ \E d \in PartialWrites(f.data) :
                  lib' = [lib EXCEPT ![f.version] = File(d, "")]
            /\ inv' = [inv EXCEPT ![p] =
                  [f EXCEPT !.pc = "pb_ret", !.result = WriteFailed(f)]]
  /\ UNCHANGED <<backup, ldcache, runs, prev, det, loc, info>>

\* _apply_nvenc_patch after _patch_binary returned: the three early returns,
\* the SONAME re-check, and ldconfig on success.
AfterPatch(p) ==
  /\ inv[p].pc = "pb_ret"
  /\ inv[p].caller = "apply"
  /\ LET f == inv[p]
         soname_after == _verify_elf_soname(lib[f.version])
         g == [f EXCEPT !.soname_after = soname_after]
     IN  IF f.result.already_patched
           THEN /\ inv' = [inv EXCEPT ![p] = Done(f, "already patched")]
                /\ UNCHANGED ldcache
         ELSE IF ~f.result.success
           THEN /\ inv' = [inv EXCEPT ![p] = Done(f, "patch failed")]
                /\ UNCHANGED ldcache
         ELSE IF f.dry_run
           THEN /\ inv' = [inv EXCEPT ![p] = Done(f, "dry run")]
                /\ UNCHANGED ldcache
         ELSE IF f.soname_before # "" /\ soname_after = ""
           THEN /\ inv' = [inv EXCEPT ![p] = [g EXCEPT !.pc = "auto_restore"]]
                /\ UNCHANGED ldcache
         ELSE /\ inv' = [inv EXCEPT ![p] =
                   Done([g EXCEPT !.ldconfig = TRUE], "success")]
              /\ ldcache' = lib
  /\ UNCHANGED <<lib, backup, runs, prev, det, loc, info>>

\* The restore after a destroyed SONAME; its return value is not looked at.
AutoRestore(p) ==
  /\ inv[p].pc = "auto_restore"
  /\ \E ret \in BOOLEAN :
        /\ _restore_backup(inv[p].version, FALSE, ret)
        /\ inv' = [inv EXCEPT ![p] =
              Done([inv[p] EXCEPT !.restore_ret = IF ret THEN "true" ELSE "false",
                                  !.ldconfig = ret],
                   "rolled back")]
  /\ UNCHANGED <<backup, runs, prev, det, loc, info>>

\* The process is killed (a signal, a power loss) wherever it is.
Interrupt(p) ==
  /\ inv[p].pc \notin {"idle", "done", "killed"}
  /\ ~(inv[p].caller = "direct" /\ inv[p].pc = "pb_ret")
  /\ inv' = [inv EXCEPT ![p] =
        [inv[p] EXCEPT !.pc = "killed", !.killed_at = inv[p].pc]]
  /\ UNCHANGED <<lib, backup, ldcache, runs, prev, det, loc, info>>

\* A further direct call of _patch_binary on the file as it now is.
DirectCall(p) ==
  /\ inv[p].caller = "direct"
  /\ inv[p].pc = "pb_ret"
  /\ runs < MaxCalls
  /\ runs' = runs + 1
  /\ prev' = [outcome |-> inv[p].result.message, version |-> inv[p].version,
              pre |-> inv[p].pre, had_backup |-> FALSE, killed_at |-> ""]
  /\ \E dry_run \in BOOLEAN :
        inv' = [inv EXCEPT ![p] =
          [IdleFrame EXCEPT !.caller = "direct", !.pc = "pb_read",
                            !.dry_run = dry_run, !.version = inv[p].version,
                            !.pre = lib[inv[p].version]]]
  /\ UNCHANGED <<lib, backup, ldcache, det, loc, info>>

\* ------------------------------------------------ _detect_driver_version

\* Text is a sequence of symbols: one-character strings, and the words
\* "version:", "filename:", "nvidia-driver-", "ii", "rc" taken whole.
Digits == <<"0", "1", "2", "3", "4", "5", "6", "7", "8", "9">>

IsDigit(c) == \E i \in 1..Len(Digits) : Digits[i] = c

IsSpace(c) == c \in {" ", "\n"}

\* str.strip(): leading and trailing whitespace removed.
strip(s) ==
  LET keep == {i \in 1..Len(s) : ~IsSpace(s[i])}
  IN  IF keep = {} THEN <<>>
      ELSE SubSeq(s, MinOf(keep), CHOOSE i \in keep : \A j \in keep : j <= i)

\* The length of the longest run of digits of s that starts at index i.
DigitRun(s, i) ==
  LET stops == {j \in i..(Len(s) + 1) : j = Len(s) + 1 \/ ~IsDigit(s[j])}
  IN  MinOf(stops) - i

\* What re.match(r'^[0-9]+\.[0-9]+', s) matches: the length of the matched
\* prefix, 0 when there is no match.
MajorMinorPrefix(s) ==
  LET a == DigitRun(s, 1)
      b == DigitRun(s, a + 2)
  IN  IF a >= 1 /\ a + 1 <= Len(s) /\ s[a + 1] = "." /\ b >= 1
        THEN a + 1 + b ELSE 0

\* What re.match(r'^[0-9]+\.[0-9]+\.[0-9]+', s) matches: the length of the
\* matched prefix, 0 when there is no match.
TriplePrefix(s) ==
  LET ab == MajorMinorPrefix(s)
      c == DigitRun(s, ab + 2)
  IN  IF ab >= 1 /\ ab + 1 <= Len(s) /\ s[ab + 1] = "." /\ c >= 1
        THEN ab + 1 + c ELSE 0

\* _VERSION_PATTERN.match(ver): a match object (true) or None.
_VERSION_PATTERN(ver) == MajorMinorPrefix(ver) > 0

\* s.split(sep).
RECURSIVE SplitOn(_, _)
SplitOn(s, sep) ==
  LET at == {i \in 1..Len(s) : s[i] = sep}
  IN  IF at = {} THEN <<s>>
      ELSE <<SubSeq(s, 1, MinOf(at) - 1)>>
             \o SplitOn(SubSeq(s, MinOf(at) + 1, Len(s)), sep)

\* int(x) of a string of digits.
RECURSIVE int(_)
int(x) ==
  IF x = <<>> THEN 0
  ELSE 10 * int(SubSeq(x, 1, Len(x) - 1))
         + (CHOOSE d \in 0..9 : Digits[d + 1] = x[Len(x)])

\* tuple(int(x) for x in v.split('.')) of one version before that of another.
KeyLess(v, w) ==
  LET a == [i \in 1..3 |-> int(SplitOn(v, ".")[i])]
      b == [i \in 1..3 |-> int(SplitOn(w, ".")[i])]
  IN  \/ a[1] < b[1]
      \/ a[1] = b[1] /\ a[2] < b[2]
      \/ a[1] = b[1] /\ a[2] = b[2] /\ a[3] < b[3]

\* An optional string: None, or a string.
None == [some |-> FALSE, v |-> <<>>]
Some(v) == [some |-> TRUE, v |-> v]

\* _detect_version_from_library over the names found in the search
\* directories, each given as what follows "libnvidia-encode.so.": the glob
\* keeps the names with two more dots, the regex takes the x.y.z they start
\* with, and the stable descending sort puts the highest first.
_detect_version_from_library(names) ==
  LET globbed == SelectSeq(names, LAMBDA n : Len(SplitOn(n, ".")) >= 3)
      matched == SelectSeq(globbed, LAMBDA n : TriplePrefix(n) > 0)
      all_versions == [i \in 1..Len(matched) |->
                         SubSeq(matched[i], 1, TriplePrefix(matched[i]))]
      top == {i \in 1..Len(all_versions) :
                \A j \in 1..Len(all_versions) :
                   ~KeyLess(all_versions[i], all_versions[j])}
  IN  IF all_versions = <<>> THEN None ELSE Some(all_versions[MinOf(top)])

\* Method 1 on what running nvidia-smi gave.
SmiVersion(run) ==
  IF run.oserror \/ run.returncode # 0 THEN None
  ELSE LET ver == strip(run.stdout)
       IN  IF ver # <<>> /\ _VERSION_PATTERN(ver) THEN Some(ver) ELSE None

\* The version a line of modinfo's output gives: its text after "version:"
\* and the whitespace, when valid.
ModinfoLine(line) ==
  IF line = <<>> \/ line[1] # "version:" THEN None
  ELSE LET spaces == {i \in 1..Len(line) : IsSpace(line[i])}
           ver == IF spaces = {} THEN <<>>
                  ELSE strip(SubSeq(line, MinOf(spaces), Len(line)))
       IN  IF ver # <<>> /\ _VERSION_PATTERN(ver) THEN Some(ver) ELSE None

\* The first element of a sequence of optional strings that is not None.
FirstSome(opts) ==
  LET hits == {i \in 1..Len(opts) : opts[i].some}
  IN  IF hits = {} THEN None ELSE opts[MinOf(hits)]

\* Method 3 on what running modinfo nvidia gave (stdout as its lines).
ModinfoVersion(run) ==
  IF run.oserror \/ run.returncode # 0 THEN None
  ELSE FirstSome([i \in 1..Len(run.stdout) |-> ModinfoLine(run.stdout[i])])

\* The version a line of dpkg -l, split at whitespace, gives.
DpkgLine(parts) ==
  IF /\ Len(parts) >= 3
     /\ parts[1] = <<"ii">>
     /\ Len(parts[2]) >= 2 /\ parts[2][1] = "nvidia-driver-"
     /\ DigitRun(parts[2], 2) = Len(parts[2]) - 1
     /\ TriplePrefix(parts[3]) > 0
    THEN Some(SubSeq(parts[3], 1, TriplePrefix(parts[3])))
    ELSE None

\* Method 4 on what running dpkg -l 'nvidia-driver-*' gave (stdout as its
\* lines, each line as its whitespace-separated parts).
DpkgVersion(run) ==
  IF run.oserror \/ run.returncode # 0 THEN None
  ELSE FirstSome([i \in 1..Len(run.stdout) |-> DpkgLine(run.stdout[i])])

\* What a command run gives: it could not be started, or it ended with a
\* return code and an output.
OSErrorRun == [oserror |-> TRUE, returncode |-> -1, stdout |-> <<>>]
Ran(rc, out) == [oserror |-> FALSE, returncode |-> rc, stdout |-> out]

\* The texts "580.126.09" and "570.86.16".
V580 == <<"5", "8", "0", ".", "1", "2", "6", ".", "0", "9">>
V570 == <<"5", "7", "0", ".", "8", "6", ".", "1", "6">>

\* What nvidia-smi can give: not there, a driver/library mismatch, one GPU,
\* two GPUs, an error text with return code 0, nothing.
SmiRuns ==
  { OSErrorRun, Ran(9, <<"x">>), Ran(0, V580 \o <<"\n">>),
    Ran(0, V580 \o <<"\n">> \o V580 \o <<"\n">>), Ran(0, <<"x", "\n">>),
    Ran(0, <<>>) }

\* The library names the directories can hold, as what follows
\* "libnvidia-encode.so.": none, the SONAME link alone, one version with the
\* link, two versions, the higher one listed last.
LibraryListings ==
  { <<>>, << <<"1">> >>, << <<"1">>, V570 >>, << V570, V580 >> }

\* What modinfo nvidia can give.
ModinfoRuns ==
  { OSErrorRun, Ran(1, <<>>),
    Ran(0, << <<"filename:", " ", "x">>, <<"version:", " ", " ">> \o V570 >>),
    Ran(0, << <<"version:">>, <<"version:", " ", "x">> >>) }

\* What dpkg -l 'nvidia-driver-*' can give.
DpkgRuns ==
  { OSErrorRun, Ran(1, <<>>),
    Ran(0, << << <<"rc">>, <<"nvidia-driver-", "5", "7", "0">>, V570 >>,
              << <<"ii">>, <<"nvidia-driver-", "5", "8", "0">>,
                 V580 \o <<"-", "0", "x">>, <<"x">> >> >>),
    Ran(0, << << <<"ii">>, <<"nvidia-driver-", "5", "8", "0", "-", "x">>,
                 V580 >> >>) }

\* The manual_version argument: None, a version, the empty string.
ManualVersions == {None, Some(V570), Some(<<>>)}

Probes == <<"nvidia-smi", "library", "modinfo", "dpkg">>

DetIdle ==
  [pc |-> "idle", manual_version |-> None,
   smi |-> OSErrorRun, names |-> <<>>, modinfo |-> OSErrorRun,
   dpkg |-> OSErrorRun, consulted |-> <<>>, ret |-> None]

\* A probe of _detect_driver_version has run and given found: the call
\* returns it, or goes on to the next method (None after the last).
AfterProbe(probe, found, next) ==
  det' = [det EXCEPT !.consulted = Append(det.consulted, probe),
                     !.ret = found,
                     !.pc = IF found.some THEN "returned" ELSE next]

\* The entry of _detect_driver_version taking the manual version for no
\* override.
DetectEntryProbes ==
  /\ det.pc = "entry"
  /\ det' = [det EXCEPT !.pc = "smi"]
  /\ UNCHANGED <<lib, backup, ldcache, inv, runs, prev, loc, info>>

\* The entry of _detect_driver_version: an override is returned at once.
DetectEntry ==
  /\ det.pc = "entry"
  /\ det' = IF det.manual_version.some
              THEN [det EXCEPT !.pc = "returned", !.ret = det.manual_version]
              ELSE [det EXCEPT !.pc = "smi"]
  /\ UNCHANGED <<lib, backup, ldcache, inv, runs, prev, loc, info>>

ProbeSmi ==
  /\ det.pc = "smi"
  /\ AfterProbe("nvidia-smi", SmiVersion(det.smi), "library")
  /\ UNCHANGED <<lib, backup, ldcache, inv, runs, prev, loc, info>>

ProbeLibrary ==
  /\ det.pc = "library"
  /\ AfterProbe("library", _detect_version_from_library(det.names), "modinfo")
  /\ UNCHANGED <<lib, backup, ldcache, inv, runs, prev, loc, info>>

ProbeModinfo ==
  /\ det.pc = "modinfo"
  /\ AfterProbe("modinfo", ModinfoVersion(det.modinfo), "dpkg")
  /\ UNCHANGED <<lib, backup, ldcache, inv, runs, prev, loc, info>>

ProbeDpkg ==
  /\ det.pc = "dpkg"
  /\ AfterProbe("dpkg", DpkgVersion(det.dpkg), "returned")
  /\ UNCHANGED <<lib, backup, ldcache, inv, runs, prev, loc, info>>

\* ------------------------------------------------------- the specifications

TheVersion == "580.126.09"

\* --------------------------------------------------- _find_encode_library

\* A directory path is the sequence of its components' names, "/" the empty
\* sequence; a name is a text, the word "lib" taken whole.
USR == <<"usr">>
LIB == <<"lib">>
LIB64 == <<"lib", "6", "4">>
LIB32 == <<"lib", "3", "2">>
LIBEXEC == <<"lib", "e", "x", "e", "c">>
BIN == <<"b", "i", "n">>
X86_64 == <<"x86_64-linux-gnu">>

_LIBRARY_SEARCH_PATHS ==
  << <<USR, LIB, X86_64>>, <<USR, LIB64>>, <<USR, LIB>>, <<LIB, X86_64>> >>

\* The prefixes of the fallback search, "/usr/lib" and "/lib".
FallbackPrefixes == << <<USR, LIB>>, <<LIB>> >>

\* os.path.dirname and os.path.basename of a path.
dirname(path) == SubSeq(path, 1, Len(path) - 1)
basename(path) == path[Len(path)]

\* entry.startswith(name).
startswith(entry, name) ==
  Len(entry) >= Len(name) /\ SubSeq(entry, 1, Len(name)) = name

\* os.path.isfile(os.path.join(dir, "libnvidia-encode.so." + version)) in the
\* filesystem fs.
HasLibrary(fs, dir, version) == <<dir, version>> \in fs.files

\* A path as an optional value.
NoPath == [some |-> FALSE, v |-> <<>>]
Path(dir) == [some |-> TRUE, v |-> dir]

\* The loop over _LIBRARY_SEARCH_PATHS taking the last directory that has
\* the library.
KnownHitLast(fs, version) ==
  LET hits == {i \in 1..Len(_LIBRARY_SEARCH_PATHS) :
                 HasLibrary(fs, _LIBRARY_SEARCH_PATHS[i], version)}
  IN  IF hits = {} THEN NoPath
      ELSE Path(_LIBRARY_SEARCH_PATHS[CHOOSE i \in hits : \A j \in hits : j <= i])

\* The loop over _LIBRARY_SEARCH_PATHS: the first directory that has the
\* library.
KnownHit(fs, version) ==
  LET hits == {i \in 1..Len(_LIBRARY_SEARCH_PATHS) :
                 HasLibrary(fs, _LIBRARY_SEARCH_PATHS[i], version)}
  IN  IF hits = {} THEN NoPath
      ELSE Path(_LIBRARY_SEARCH_PATHS[MinOf(hits)])

\* The fallback loop for one prefix: the entries of the prefix's parent, in
\* the order os.listdir gives them, that start with the prefix's basename and
\* are directories; the first that has the library.  A failing listdir ends
\* the loop for this prefix.
FallbackScan(fs, prefix, version) ==
  LET parent == dirname(prefix)
      ls == fs.listdir[parent]
      hits == {i \in 1..Len(ls.entries) :
                 /\ startswith(ls.entries[i], basename(prefix))
                 /\ Append(parent, ls.entries[i]) \in fs.dirs
                 /\ HasLibrary(fs, Append(parent, ls.entries[i]), version)}
  IN  IF ls.oserror \/ hits = {} THEN NoPath
      ELSE Path(Append(parent, ls.entries[MinOf(hits)]))

\* The fallback search over both prefixes in order.
Fallback(fs, version) ==
  LET first == FallbackScan(fs, FallbackPrefixes[1], version)
  IN  IF first.some THEN first ELSE FallbackScan(fs, FallbackPrefixes[2], version)

\* The directories a library file can be in, and those that are directories
\* however the filesystem is (libexec may be a plain file).
LibraryDirs ==
  { <<USR, LIB, X86_64>>, <<USR, LIB64>>, <<USR, LIB>>, <<LIB, X86_64>>,
    <<USR, LIB32>>, <<LIB>>, <<LIB32>> }

\* What os.listdir can give for "/usr" and for "/".
Listing(es) == [oserror |-> FALSE, entries |-> es]
ListdirFails == [oserror |-> TRUE, entries |-> <<>>]

UsrListings ==
  { ListdirFails, Listing(<<BIN>>), Listing(<<BIN, LIB, LIB32, LIBEXEC>>),
    Listing(<<LIBEXEC, LIB32, LIB64, LIB>>) }

RootListings ==
  { ListdirFails, Listing(<<USR, BIN>>), Listing(<<LIB32, USR, LIB>>),
    Listing(<<USR, LIB, LIB32>>) }

\* The filesystems: in which directories a library of which version is, which
\* listed directories are directories, and the two listings.  A directory
\* that holds a library is a directory and is listed in its parent.
Listed(ls, name) == \E i \in 1..Len(ls.entries) : ls.entries[i] = name

FileSystems ==
  { fs \in [files : SUBSET (LibraryDirs \X {TheVersion}),
            dirs : {LibraryDirs, LibraryDirs \cup {<<USR, LIBEXEC>>}},
            listdir : {[d \in {<<USR>>, <<>>} |->
                          IF d = <<USR>> THEN u ELSE r] :
                       u \in UsrListings, r \in RootListings}] :
      \A f \in fs.files :
         LET dir == f[1]
         IN  (dirname(dir) \in {<<USR>>, <<>>}
              /\ ~fs.listdir[dirname(dir)].oserror)
             => Listed(fs.listdir[dirname(dir)], basename(dir)) }

LocIdle ==
  [pc |-> "idle", version |-> NoVersion,
   fs |-> [files |-> {}, dirs |-> {},
           listdir |-> [d \in {<<USR>>, <<>>} |-> ListdirFails]],
   fallback |-> FALSE, ret |-> NoPath, calls |-> 0, first |-> NoPath]

\* _find_encode_library up to the end of the loop over the well-known paths.
FindKnown ==
  /\ loc.pc = "known"
  /\ LET hit == KnownHit(loc.fs, loc.version)
     IN  loc' = IF hit.some
                  THEN [loc EXCEPT !.pc = "returned", !.ret = hit]
                  ELSE [loc EXCEPT !.pc = "fallback"]
  /\ UNCHANGED <<lib, backup, ldcache, inv, runs, prev, det, info>>

\* The fallback search and the return.
FindFallback ==
  /\ loc.pc = "fallback"
  /\ loc' = [loc EXCEPT !.pc = "returned", !.fallback = TRUE,
                        !.ret = Fallback(loc.fs, loc.version)]
  /\ UNCHANGED <<lib, backup, ldcache, inv, runs, prev, det, info>>

\* A second call for the same version on the same filesystem.
FindAgain ==
  /\ loc.pc = "returned"
  /\ loc.calls = 1
  /\ loc' = [loc EXCEPT !.pc = "known", !.calls = 2, !.first = loc.ret,
                        !.fallback = FALSE, !.ret = NoPath]
  /\ UNCHANGED <<lib, backup, ldcache, inv, runs, prev, det, info>>


\* ------------------------------------------------- get_nvenc_session_info

_NVENC_LIMIT_12_MIN_DRIVER == 590
_NVENC_LIMIT_5_MIN_DRIVER == 531
_NVENC_LIMIT_3_MIN_DRIVER == 450

\* The native_limit of the dict: None, or a number of sessions.
NoLimit == [some |-> FALSE, n |-> 0]
Limit(n) == [some |-> TRUE, n |-> n]

\* The text of a driver version with the given three digits as its major.
VersionOf(a, b, c) ==
  <<Digits[a + 1], Digits[b + 1], Digits[c + 1]>> \o <<".", "8", "6", ".", "1", "6">>

\* The driver versions the detection can give get_nvenc_session_info: None,
\* versions with majors at and around the thresholds, and the two lines of
\* two GPUs.
InfoVersions ==
  { None, Some(VersionOf(3, 9, 0)), Some(VersionOf(4, 4, 9)),
    Some(VersionOf(4, 5, 0)), Some(VersionOf(5, 3, 0)),
    Some(VersionOf(5, 3, 1)), Some(VersionOf(5, 8, 9)),
    Some(VersionOf(5, 9, 0)), Some(VersionOf(5, 9, 1)),
    Some(V580 \o <<"\n">> \o V580) }

\* int(driver_version.split('.')[0]), 0 on ValueError or IndexError.
MajorOf(driver_version) ==
  LET head == SplitOn(driver_version, ".")[1]
  IN  IF head # <<>> /\ DigitRun(head, 1) = Len(head) THEN int(head) ELSE 0

\* The dict as initialised.
InfoDict ==
  [native_limit |-> NoLimit, is_patched |-> FALSE, is_professional |-> FALSE,
   driver_version |-> None, status_label |-> "", patch_useful |-> FALSE]

InfoIdle ==
  [pc |-> "idle", detected |-> None, professional |-> FALSE,
   found |-> NoFile, readable |-> TRUE, ret |-> InfoDict]

\* The limit branch with the comparisons strict (> where the source has >=).
NativeLimitStrict(major) ==
  IF major > _NVENC_LIMIT_12_MIN_DRIVER THEN [limit |-> 12, label |-> "[12 sessions]"]
  ELSE IF major > _NVENC_LIMIT_5_MIN_DRIVER THEN [limit |-> 5, label |-> "[5 sessions]"]
  ELSE IF major > _NVENC_LIMIT_3_MIN_DRIVER THEN [limit |-> 3, label |-> "[3 sessions]"]
  ELSE [limit |-> 3, label |-> "[Limited]"]

\* The native limit and the label for a driver major.
NativeLimit(major) ==
  IF major >= _NVENC_LIMIT_12_MIN_DRIVER THEN [limit |-> 12, label |-> "[12 sessions]"]
  ELSE IF major >= _NVENC_LIMIT_5_MIN_DRIVER THEN [limit |-> 5, label |-> "[5 sessions]"]
  ELSE IF major >= _NVENC_LIMIT_3_MIN_DRIVER THEN [limit |-> 3, label |-> "[3 sessions]"]
  ELSE [limit |-> 3, label |-> "[Limited]"]

\* get_nvenc_session_info from its entry to the professional-GPU return.
InfoDetect ==
  /\ info.pc = "entry"
  /\ LET d == [info.ret EXCEPT !.driver_version = info.detected]
     IN  info' = IF info.professional
                   THEN [info EXCEPT !.pc = "returned",
                           !.ret = [d EXCEPT !.is_professional = TRUE,
                                             !.status_label = "[Pro - Unrestricted]",
                                             !.patch_useful = FALSE]]
                   ELSE [info EXCEPT !.pc = "patched_check", !.ret = d]
  /\ UNCHANGED <<lib, backup, ldcache, inv, runs, prev, det, loc>>

\* The already-patched check: a dry-run _patch_binary on the first library
\* the glob finds, False when there is none or anything raises.
InfoPatchedCheck ==
  /\ info.pc = "patched_check"
  /\ LET is_patched ==
           /\ info.found.exists
           /\ info.readable
           /\ PatchPlan(info.found.data, TRUE).result.already_patched
         d == [info.ret EXCEPT !.is_patched = is_patched]
     IN  info' = IF is_patched
                   THEN [info EXCEPT !.pc = "returned",
                           !.ret = [d EXCEPT !.status_label = "[Unlimited]",
                                             !.patch_useful = FALSE]]
                   ELSE [info EXCEPT !.pc = "limit", !.ret = d]
  /\ UNCHANGED <<lib, backup, ldcache, inv, runs, prev, det, loc>>

\* The native limit from the driver version, and the return.
InfoLimit ==
  /\ info.pc = "limit"
  /\ LET dv == info.ret.driver_version
         nl == NativeLimit(MajorOf(dv.v))
         d == IF dv.some /\ dv.v # <<>>
                THEN [info.ret EXCEPT !.native_limit = Limit(nl.limit),
                                      !.status_label = nl.label]
                ELSE [info.ret EXCEPT !.status_label = "[Unknown]"]
     IN  info' = [info EXCEPT !.pc = "returned",
                              !.ret = [d EXCEPT !.patch_useful = TRUE]]
  /\ UNCHANGED <<lib, backup, ldcache, inv, runs, prev, det, loc>>


\* Sequential invocations of _apply_nvenc_patch on an installed library.
Init ==
  /\ \E d \in Targets, s \in {SonameOK, ""} :
        lib = [v \in Versions |-> IF v = TheVersion THEN File(d, s) ELSE NoFile]
  /\ backup = [v \in Versions |-> NoFile]
  /\ ldcache = lib
  /\ inv = [p \in Procs |-> IdleFrame]
  /\ runs = 0
  /\ prev = NoPrev
  /\ det = DetIdle
  /\ loc = LocIdle
  /\ info = InfoIdle

Next ==
  \E p \in SeqProcs :
     \/ Start(p)
     \/ VerifySoname(p)
     \/ Rollback(p)
     \/ BackupCheck(p)
     \/ BackupCopy(p)
     \/ PbRead(p)
     \/ PbOpen(p)
     \/ PbWrite(p)
     \/ AfterPatch(p)
     \/ AutoRestore(p)
     \/ Interrupt(p)

Spec == Init /\ [][Next]_vars

\* Direct calls of _patch_binary on a file of the family.
InitPatch ==
  /\ \E d \in Concats(MaxChunks) :
        lib = [v \in Versions |->
                 IF v = TheVersion THEN File(d, SonameOK) ELSE NoFile]
  /\ backup = [v \in Versions |-> NoFile]
  /\ ldcache = lib
  /\ \E dry_run \in BOOLEAN :
        inv = [p \in Procs |->
                 IF p = 1
                   THEN [IdleFrame EXCEPT !.caller = "direct", !.pc = "pb_read",
                                          !.dry_run = dry_run,
                                          !.version = TheVersion,
                                          !.pre = lib[TheVersion]]
                   ELSE IdleFrame]
  /\ runs = 1
  /\ prev = NoPrev
  /\ det = DetIdle
  /\ loc = LocIdle
  /\ info = InfoIdle

NextPatch ==
  \E p \in SeqProcs :
     \/ PbRead(p)
     \/ PbOpen(p)
     \/ PbWrite(p)
     \/ DirectCall(p)
     \/ Interrupt(p)

SpecPatch == InitPatch /\ [][NextPatch]_vars

\* Calls of _detect_driver_version, over what the four probes can give.
InitDetect ==
  /\ lib = [v \in Versions |-> NoFile]
  /\ backup = [v \in Versions |-> NoFile]
  /\ ldcache = lib
  /\ inv = [p \in Procs |-> IdleFrame]
  /\ runs = 0
  /\ prev = NoPrev
  /\ loc = LocIdle
  /\ info = InfoIdle
  /\ \E m \in ManualVersions, s \in SmiRuns, n \in LibraryListings,
        mi \in ModinfoRuns, d \in DpkgRuns :
        det = [DetIdle EXCEPT !.pc = "entry", !.manual_version = m, !.smi = s,
                              !.names = n, !.modinfo = mi, !.dpkg = d]

NextDetect ==
  \/ DetectEntry
  \/ ProbeSmi
  \/ ProbeLibrary
  \/ ProbeModinfo
  \/ ProbeDpkg

SpecDetect == InitDetect /\ [][NextDetect]_vars

\* Calls of _find_encode_library over the filesystems.
InitFind ==
  /\ lib = [v \in Versions |-> NoFile]
  /\ backup = [v \in Versions |-> NoFile]
  /\ ldcache = lib
  /\ inv = [p \in Procs |-> IdleFrame]
  /\ runs = 0
  /\ prev = NoPrev
  /\ det = DetIdle
  /\ info = InfoIdle
  /\ \E fs \in FileSystems :
        loc = [LocIdle EXCEPT !.pc = "known", !.version = TheVersion,
                              !.fs = fs, !.calls = 1]

NextFind ==
  \/ FindKnown
  \/ FindFallback
  \/ FindAgain

SpecFind == InitFind /\ [][NextFind]_vars

\* Calls of get_nvenc_session_info over what it can detect.
InitInfo ==
  /\ lib = [v \in Versions |-> NoFile]
  /\ backup = [v \in Versions |-> NoFile]
  /\ ldcache = lib
  /\ inv = [p \in Procs |-> IdleFrame]
  /\ runs = 0
  /\ prev = NoPrev
  /\ det = DetIdle
  /\ loc = LocIdle
  /\ \E v \in InfoVersions, pro \in BOOLEAN, r \in BOOLEAN,
        f \in {NoFile} \cup {File(d, SonameOK) : d \in Targets} :
        info = [InfoIdle EXCEPT !.pc = "entry", !.detected = v,
                                !.professional = pro, !.found = f,
                                !.readable = r]

NextInfo ==
  \/ InfoDetect
  \/ InfoPatchedCheck
  \/ InfoLimit

SpecInfo == InitInfo /\ [][NextInfo]_vars


\* Two live invocations of _apply_nvenc_patch running at once on the same
\* library and version, both past _find_encode_library, with no backup yet.
InitConcurrent ==
  /\ \E d \in Targets, s \in {SonameOK, ""} :
        lib = [v \in Versions |-> IF v = TheVersion THEN File(d, s) ELSE NoFile]
  /\ backup = [v \in Versions |-> NoFile]
  /\ ldcache = lib
  /\ inv = [p \in Procs |->
              [IdleFrame EXCEPT !.pc = "verify_soname", !.version = TheVersion,
                                !.pre = lib[TheVersion]]]
  /\ runs = Cardinality(Procs)
  /\ prev = NoPrev
  /\ det = DetIdle
  /\ loc = LocIdle
  /\ info = InfoIdle

NextConcurrent ==
  \E p \in Procs :
     \/ VerifySoname(p)
     \/ BackupCheck(p)
     \/ BackupCopy(p)
     \/ PbRead(p)
     \/ PbOpen(p)
     \/ PbWrite(p)
     \/ AfterPatch(p)
     \/ AutoRestore(p)

SpecConcurrent == InitConcurrent /\ [][NextConcurrent]_vars

\* ---------------------------------------------------------------- the claims

\* The offsets at which pattern occurs in data.
Occ(data, pattern) ==
  {i \in 0..(Len(data) - Len(pattern)) :
      SubSeq(data, i + 1, i + Len(pattern)) = pattern}

AnchorIds == 1..Len(_ANCHORS)
AnchorBytes(i) == fromhex(_ANCHORS[i].anchor)
OldBytes(i, k) == fromhex(_ANCHORS[i].variants[k].old_hex)
NewBytes(i, k) == fromhex(_ANCHORS[i].variants[k].new_hex)

\* C1: every PatchVariant of every anchor of _ANCHORS has before-bytes
\* (old_hex) and after-bytes (new_hex) of the same byte length; stated of
\* every variant of every anchor that a _patch_binary call matches.
C1_EqualLengths ==
  \A p \in SeqProcs :
     \A i \in AnchorIds : \A k \in 1..Len(_ANCHORS[i].variants) :
        (inv[p].plan.anchor = i /\ inv[p].plan.variant = k)
        => Len(OldBytes(i, k)) = Len(NewBytes(i, k))

\* C2: after a successful live _patch_binary call the target has the length
\* it had and every byte outside [patchSite, patchSite + len(beforeBytes)) is
\* the byte that was there; no other file is modified.
C2_PatchFrame ==
  \A p \in SeqProcs :
     LET f == inv[p]
         before == f.at_write.data
         after == lib[f.version].data
         site == f.result.offset
         n == Len(OldBytes(f.plan.anchor, f.plan.variant))
     IN  (f.pc = "pb_ret" /\ f.wrote /\ f.result.success)
         => /\ Len(after) = Len(before)
            /\ \A i \in 0..(Len(before) - 1) :
                  (i < site \/ i >= site + n) => after[i + 1] = before[i + 1]
            /\ backup = [v \in Versions |-> NoFile]
            /\ \A v \in Versions \ {f.version} : lib[v] = NoFile

\* C3: _patch_binary writes to the target only if the bytes at
\* patchSite = anchorOffset + skip of the file are exactly the before-bytes of
\* the variant it applies, a variant of the anchor it selected, whose one
\* occurrence is at anchorOffset.
C3_WriteOnlyOnExactMatch ==
  \A p \in SeqProcs :
     LET f == inv[p]
         file == f.at_write.data
     IN  f.wrote
         => /\ f.plan.anchor \in AnchorIds
            /\ f.plan.variant \in 1..Len(_ANCHORS[f.plan.anchor].variants)
            /\ Occ(file, AnchorBytes(f.plan.anchor)) = {f.plan.pos}
            /\ LET site == f.plan.pos + _ANCHORS[f.plan.anchor].skip
                   old == OldBytes(f.plan.anchor, f.plan.variant)
               IN  /\ site + Len(old) <= Len(file)
                   /\ SubSeq(file, site + 1, site + Len(old)) = old

\* C3 witness: a write took place and the call returned success.
C3_Witness ==
  \E p \in SeqProcs :
     inv[p].wrote /\ inv[p].pc = "pb_ret" /\ inv[p].result.success
     /\ inv[p].plan.variant = 2

\* C4 as stated: for a file with two or more occurrences of an anchor,
\* _patch_binary never selects that anchor and reports the no-unique-anchor
\* failure rather than a patch.
C4_AmbiguousAlwaysFails ==
  \A p \in SeqProcs : \A i \in AnchorIds :
     LET f == inv[p]
     IN  (f.pc = "pb_ret" /\ f.scanned
          /\ Cardinality(Occ(f.pre.data, AnchorBytes(i))) >= 2)
         => /\ f.plan.anchor # i
            /\ ~f.wrote
            /\ ~f.result.success
            /\ f.result.message = "no unique anchor"

\* C4 amended: for a file with two or more occurrences of an anchor,
\* _patch_binary never selects that anchor; it reports the no-unique-anchor
\* failure unless another anchor occurs exactly once in the file or a patched
\* marker occurs in it.
C4_AmbiguousNeverSelected ==
  \A p \in SeqProcs : \A i \in AnchorIds :
     LET f == inv[p]
     IN  (f.pc = "pb_ret" /\ f.scanned
          /\ Cardinality(Occ(f.pre.data, AnchorBytes(i))) >= 2)
         => /\ f.plan.anchor # i
            /\ \/ (~f.result.success /\ ~f.wrote
                   /\ f.result.message = "no unique anchor")
               \/ \E j \in AnchorIds \ {i} :
                     Cardinality(Occ(f.pre.data, AnchorBytes(j))) = 1
               \/ \E j \in AnchorIds :
                     Occ(f.pre.data, fromhex(_ANCHORS[j].patched_marker)) # {}

\* C4 witness: one anchor occurs twice and the call patched at another.
C4_Witness ==
  \E p \in SeqProcs : \E i \in AnchorIds :
     /\ inv[p].pc = "pb_ret" /\ inv[p].wrote /\ inv[p].result.success
     /\ Cardinality(Occ(inv[p].pre.data, AnchorBytes(i))) >= 2

\* C5: in every run of _apply_nvenc_patch, when the patcher is about to write
\* or is writing the target, a backup for the resolved version exists; and
\* the scan/patch step runs only after _create_backup returned True.
C5_BackupBeforeWrite ==
  \A p \in SeqProcs :
     LET f == inv[p]
     IN  f.caller = "apply"
         => /\ (f.pc \in {"pb_open", "pb_write"} \/ f.wrote)
               => backup[f.version].exists
            /\ (f.pc \in {"pb_read", "pb_open", "pb_write", "pb_ret"}
                \/ f.scanned \/ f.wrote)
               => f.backup_ret = "true"
            /\ f.backup_ret = "false"
               => (f.pc \in {"done", "killed"} /\ ~f.scanned /\ ~f.wrote)

\* C5 witness: the patcher is writing the target in a run that made the backup.
C5_Witness ==
  \E p \in SeqProcs :
     /\ inv[p].caller = "apply" /\ inv[p].pc = "pb_write"
     /\ ~inv[p].had_backup /\ backup[inv[p].version] = inv[p].pre

\* C6: a live run that wrote the patch to a file whose SONAME was present
\* ends either successful with the SONAME present and equal to the one read
\* before, or failed with the target restored from the backup.
C6_SonameKeptOrRestored ==
  \A p \in SeqProcs :
     LET f == inv[p]
     IN  (f.caller = "apply" /\ f.pc = "done" /\ f.wrote /\ f.result.success
          /\ f.soname_before # "")
         => \/ /\ f.outcome = "success"
               /\ f.soname_after = f.soname_before
               /\ _verify_elf_soname(lib[f.version]) = f.soname_before
            \/ /\ f.outcome = "rolled back"
               /\ lib[f.version] = backup[f.version]

\* C7: if the process is interrupted while _patch_binary persists the patched
\* bytes, the target is byte-identical to the original file or to the
\* completely patched file.
C7_AtomicPersist ==
  \A p \in SeqProcs :
     LET f == inv[p]
     IN  (f.pc = "killed" /\ f.killed_at \in {"pb_open", "pb_write"})
         => \/ lib[f.version].data = f.pre.data
            \/ lib[f.version].data = f.plan.newdata

\* C8: whenever _patch_binary returns success=false the target's bytes are
\* what they were before the call, and a run of _apply_nvenc_patch ending
\* with 'Patch failed' leaves the target in that state.
C8_FailureLeavesTarget ==
  \A p \in SeqProcs :
     LET f == inv[p]
     IN  /\ (f.pc = "pb_ret" /\ ~f.result.success)
            => lib[f.version].data = f.pre.data
         /\ (f.pc = "done" /\ f.outcome = "patch failed")
            => lib[f.version].data = f.pre.data

\* C9: across sequential _create_backup calls a backup that exists is never
\* written again, whatever the target then contains, and the call that finds
\* it returns True.
C9_BackupWrittenOnce ==
  [][\A v \in Versions :
        backup[v].exists
        => /\ backup'[v] = backup[v]
           /\ \A p \in SeqProcs :
                 (inv[p].pc = "backup_check" /\ inv[p].version = v
                  /\ inv'[p].pc \notin {"backup_check", "killed"})
                 => (inv'[p].backup_ret = "true" /\ inv'[p].pc = "pb_read")]_vars

\* C9 witness: a live call found the backup while the target differs from it.
C9_Witness ==
  \E p \in SeqProcs :
     /\ inv[p].pc = "pb_read" /\ inv[p].had_backup /\ ~inv[p].dry_run
     /\ inv[p].backup_ret = "true"
     /\ lib[inv[p].version].data # backup[inv[p].version].data

\* C10: a live patch invocation that starts with no backup for its version
\* and writes the patch, followed by a live rollback invocation for that
\* version whose restore succeeds, leaves the target identical to the file
\* the patch invocation found, for every variant.
C10_PatchThenRollback ==
  \A p \in SeqProcs :
     LET f == inv[p]
     IN  (f.caller = "apply" /\ f.pc = "done" /\ f.rollback /\ ~f.dry_run
          /\ f.restore_ret = "true"
          /\ prev.outcome \in {"success", "rolled back"}
          /\ ~prev.had_backup /\ prev.version = f.version)
         => lib[f.version] = prev.pre

\* C10 witness: the round trip over the first variant of the first anchor,
\* whose patch was reported successful.
C10_Witness ==
  \E p \in SeqProcs :
     /\ inv[p].caller = "apply" /\ inv[p].pc = "done" /\ inv[p].rollback
     /\ ~inv[p].dry_run /\ inv[p].restore_ret = "true"
     /\ prev.outcome = "success" /\ ~prev.had_backup
     /\ prev.version = inv[p].version
     /\ prev.pre.data = Slice(AnchorBytes(1), 0, _ANCHORS[1].skip) \o OldBytes(1, 1)
     /\ lib[inv[p].version] = prev.pre

\* C11: after a live _patch_binary call that succeeded on a file, with any
\* anchor and variant of the table, a second call on the resulting file
\* returns already_patched=true (success=true) and leaves every byte of the
\* file as it is.
C11_SecondCallAlreadyPatched ==
  \A p \in SeqProcs :
     LET f == inv[p]
     IN  (f.caller = "direct" /\ f.pc = "pb_ret" /\ f.scanned
          /\ prev.outcome = "patched")
         => /\ f.result.already_patched
            /\ f.result.success
            /\ ~f.wrote
            /\ lib[f.version] = f.pre

\* C11 witness: the second call returned on the file the first call made
\* by patching the first variant of the first anchor.
C11_Witness ==
  \E p \in SeqProcs :
     /\ inv[p].caller = "direct" /\ inv[p].pc = "pb_ret" /\ inv[p].scanned
     /\ prev.outcome = "patched"
     /\ prev.pre.data = Slice(AnchorBytes(1), 0, _ANCHORS[1].skip) \o OldBytes(1, 1)
     /\ inv[p].result.already_patched
     /\ lib[inv[p].version].data
          = Slice(AnchorBytes(1), 0, _ANCHORS[1].skip) \o NewBytes(1, 1)

\* The scan selects anchor i in data: it is the first of the table that
\* occurs exactly once, and no earlier anchor's patched marker is in data.
Selects(data, i) ==
  /\ Cardinality(Occ(data, AnchorBytes(i))) = 1
  /\ \A j \in 1..(i - 1) :
        /\ Cardinality(Occ(data, AnchorBytes(j))) # 1
        /\ Occ(data, fromhex(_ANCHORS[j].patched_marker)) = {}

\* The patch site of anchor i, which occurs once in data.
SiteOf(data, i) == MinOf(Occ(data, AnchorBytes(i))) + _ANCHORS[i].skip

\* Variant k is the first of anchor i, in table order, whose before-bytes are
\* at the patch site, no earlier variant's after-bytes being there.
FirstVariant(data, i, k) ==
  LET site == SiteOf(data, i)
  IN  /\ Slice(data, site, site + Len(OldBytes(i, k))) = OldBytes(i, k)
      /\ \A j \in 1..(k - 1) :
            /\ Slice(data, site, site + Len(OldBytes(i, j))) # OldBytes(i, j)
            /\ Slice(data, site, site + Len(OldBytes(i, j))) # NewBytes(i, j)

\* A matchable file: the scan selects an anchor and a variant of it has its
\* before-bytes at the patch site.
Matchable(data) ==
  \E i \in AnchorIds :
     /\ Selects(data, i)
     /\ \E k \in 1..Len(_ANCHORS[i].variants) : FirstVariant(data, i, k)

\* C12: with dry_run=True no step of _patch_binary or of _apply_nvenc_patch
\* changes the target, the backup store or the linker cache (no write, no
\* backup copy, no ldconfig), and _patch_binary on a matchable file returns
\* success=true, already_patched=false.
C12_DryRunChangesNothing ==
  [][\A p \in SeqProcs :
        inv'[p].dry_run
        => /\ lib' = lib
           /\ backup' = backup
           /\ ldcache' = ldcache
           /\ ~inv'[p].wrote
           /\ ~inv'[p].ldconfig
           /\ (inv'[p].pc = "pb_ret" /\ inv'[p].scanned
               /\ Matchable(lib[inv'[p].version].data))
              => (inv'[p].result.success /\ ~inv'[p].result.already_patched)]_vars

\* C12 witness: a dry run over a matchable library has returned, no backup
\* exists and the library is the file the run found.
C12_Witness ==
  \E p \in SeqProcs :
     /\ inv[p].caller = "apply" /\ inv[p].dry_run /\ ~inv[p].rollback
     /\ inv[p].pc = "done" /\ inv[p].outcome = "dry run"
     /\ Matchable(inv[p].pre.data)
     /\ ~backup[inv[p].version].exists
     /\ lib[inv[p].version] = inv[p].pre
     /\ runs = 1

\* C13: every PatchResult that _patch_binary returns is in exactly one of the
\* classes failure (success=false, already_patched=false), already patched
\* (already_patched=true, with success=true) and freshly patched
\* (success=true, already_patched=false): success=false never comes with
\* already_patched=true.
C13_OutcomeClasses ==
  \A p \in SeqProcs :
     LET r == inv[p].result
         failure == ~r.success /\ ~r.already_patched
         already == r.already_patched
         fresh == r.success /\ ~r.already_patched
     IN  inv[p].pc = "pb_ret"
         => /\ (failure \/ already \/ fresh)
            /\ ~(failure /\ already) /\ ~(failure /\ fresh) /\ ~(already /\ fresh)
            /\ ~(~r.success /\ r.already_patched)

\* C13 witness: a call that selected a site and opened the file has returned
\* in the failure class, its write having failed.
C13_Witness ==
  \E p \in SeqProcs :
     /\ inv[p].pc = "pb_ret" /\ inv[p].wrote
     /\ ~inv[p].result.success /\ ~inv[p].result.already_patched
     /\ inv[p].result.message = "write failed"

\* C14: when the scan selects an anchor that occurs exactly once and v is
\* the first variant, in table order, whose before-bytes are at
\* patchSite = anchorOffset + skip, a live _patch_binary whose write does not
\* fail returns success=true with variant_label = v.label and
\* offset = patchSite, and the file then holds v's after-bytes at that
\* offset; of a longer and a shorter variant that both match, the one listed
\* first is applied.
C14_FirstMatchingVariantApplied ==
  \A p \in SeqProcs : \A i \in AnchorIds :
     \A k \in 1..Len(_ANCHORS[i].variants) :
        LET f == inv[p]
            site == SiteOf(f.pre.data, i)
        IN  (f.caller = "direct" /\ f.pc = "pb_ret" /\ ~f.dry_run /\ f.scanned
             /\ f.result.message # "write failed"
             /\ Selects(f.pre.data, i) /\ FirstVariant(f.pre.data, i, k))
            => /\ f.wrote
               /\ f.result.success /\ ~f.result.already_patched
               /\ f.result.variant_label = _ANCHORS[i].variants[k].label
               /\ f.result.offset = site
               /\ Slice(lib[f.version].data, site, site + Len(NewBytes(i, k)))
                    = NewBytes(i, k)

\* C14 witness: the longer and the shorter variant of the third anchor both
\* matched and the call applied the longer one, listed first.
C14_Witness ==
  \E p \in SeqProcs :
     LET f == inv[p]
     IN  /\ f.caller = "direct" /\ f.pc = "pb_ret" /\ ~f.dry_run /\ f.wrote
         /\ f.result.success
         /\ Selects(f.pre.data, 3)
         /\ LET site == SiteOf(f.pre.data, 3)
            IN  /\ Slice(f.pre.data, site, site + Len(OldBytes(3, 1))) = OldBytes(3, 1)
                /\ Slice(f.pre.data, site, site + Len(OldBytes(3, 2))) = OldBytes(3, 2)
                /\ f.result.variant_label = "r12d+JNE"
                /\ Slice(lib[f.version].data, site, site + Len(NewBytes(3, 1)))
                     = NewBytes(3, 1)

\* C15: when a file holds one anchor twice (or more), no anchor exactly once
\* and no anchor's patched marker anywhere, _patch_binary returns the
\* no-unique-anchor failure (success=false, already_patched=false,
\* offset=-1) and the file is as it was.
C15_NoUniqueAnchor ==
  \A p \in SeqProcs :
     LET f == inv[p]
         d == f.pre.data
     IN  (f.pc = "pb_ret" /\ f.scanned
          /\ (\E i \in AnchorIds : Cardinality(Occ(d, AnchorBytes(i))) >= 2)
          /\ (\A i \in AnchorIds : Cardinality(Occ(d, AnchorBytes(i))) # 1)
          /\ (\A i \in AnchorIds :
                 Occ(d, fromhex(_ANCHORS[i].patched_marker)) = {}))
         => /\ ~f.result.success /\ ~f.result.already_patched
            /\ f.result.offset = -1
            /\ f.result.variant_label = ""
            /\ f.result.message = "no unique anchor"
            /\ ~f.wrote
            /\ lib[f.version] = f.pre

\* C15 witness: a live call has returned on a file with the second anchor
\* twice and nothing else from the table.
C15_Witness ==
  \E p \in SeqProcs :
     LET f == inv[p]
         d == f.pre.data
     IN  /\ f.pc = "pb_ret" /\ f.scanned /\ ~f.dry_run
         /\ Cardinality(Occ(d, AnchorBytes(2))) = 2
         /\ (\A i \in AnchorIds \ {2} : Occ(d, AnchorBytes(i)) = {})
         /\ (\A j \in AnchorIds :
                Occ(d, fromhex(_ANCHORS[j].patched_marker)) = {})
         /\ f.result.message = "no unique anchor"

\* A non-rollback invocation whose driver version is undetected, whose
\* library file is not found, or whose library has no SONAME before the run.
EarlyExit(f) ==
  /\ f.caller = "apply" /\ f.pc # "idle" /\ ~f.rollback
  /\ f.outcome # "no patch needed"
  /\ (f.version = NoVersion \/ ~f.pre.exists \/ f.pre.soname = "")

\* C16: in a non-rollback run of _apply_nvenc_patch with the driver version
\* undetected, the library file not found or the pre-flight SONAME absent, the
\* run returns at once: no step of it changes the target, the backup store or
\* the linker cache, _create_backup, _patch_binary and _restore_backup are
\* never called and ldconfig is never run.
C16_EarlyExitTouchesNothing ==
  [][\A p \in SeqProcs :
        LET f == inv'[p]
        IN  EarlyExit(f)
            => /\ lib' = lib /\ backup' = backup /\ ldcache' = ldcache
               /\ f.pc \in {"verify_soname", "done", "killed"}
               /\ f.pc = "done"
                  => f.outcome \in {"version undetected", "library not found",
                                    "soname missing"}
               /\ f.backup_ret = "none" /\ f.restore_ret = "none"
               /\ ~f.scanned /\ ~f.wrote /\ ~f.ldconfig]_vars

\* C16 witness: a live patch run has returned on a library without SONAME,
\* the library a matchable file and no backup made.
C16_Witness ==
  \E p \in SeqProcs :
     /\ EarlyExit(inv[p]) /\ ~inv[p].dry_run
     /\ inv[p].pc = "done" /\ inv[p].outcome = "soname missing"
     /\ Matchable(inv[p].pre.data)
     /\ lib[inv[p].version] = inv[p].pre
     /\ ~backup[inv[p].version].exists

\* C17: when the post-patch SONAME check finds the SONAME destroyed,
\* _apply_nvenc_patch attempts a restore from the backup and reports the
\* patch as rolled back only if that restore succeeded (the target is then
\* the backup); a failed restore is reported as a failed restore.
C17_RestoreOutcomeReported ==
  \A p \in SeqProcs :
     LET f == inv[p]
     IN  (f.caller = "apply" /\ f.pc = "done" /\ f.wrote /\ f.result.success
          /\ f.soname_before # "" /\ f.soname_after = "")
         => /\ f.restore_ret # "none"
            /\ f.outcome = "rolled back"
               => (f.restore_ret = "true" /\ lib[f.version] = backup[f.version])
            /\ f.restore_ret = "false" => f.outcome # "rolled back"

\* C18: in every run that returns, a successful change of the target (a live
\* patch written and passing the SONAME re-check, or a live restore from the
\* backup that returned True) has been followed by an ldconfig run: the
\* linker cache is that of the library files as the run leaves them.
C18_LdconfigAfterChange ==
  \A p \in SeqProcs :
     LET f == inv[p]
         patched == f.wrote /\ f.result.success /\ f.restore_ret = "none"
         restored == f.restore_ret = "true" /\ ~f.dry_run
     IN  (f.caller = "apply" /\ f.pc = "done" /\ (patched \/ restored))
         => (f.ldconfig /\ ldcache = lib)

\* C18 witness: a live rollback restored a library that a run before it had
\* patched, and the linker cache has the restored file.
C18_Witness ==
  \E p \in SeqProcs :
     LET f == inv[p]
     IN  /\ f.caller = "apply" /\ f.pc = "done" /\ f.rollback /\ ~f.dry_run
         /\ f.restore_ret = "true" /\ prev.outcome = "success"
         /\ f.pre # backup[f.version]
         /\ lib[f.version] = backup[f.version]
         /\ ldcache[f.version] = backup[f.version]

\* C19: _restore_backup called for a version with no backup file returns
\* False (the run reports the failure), leaves the target unchanged and runs
\* no ldconfig; called live with the backup there and the copy succeeding it
\* returns True and the target is byte-identical to the backup.
C19_RestoreBackupContract ==
  [][\A p \in SeqProcs :
        LET f == inv[p]
            g == inv'[p]
        IN  (f.pc \in {"rollback", "auto_restore"} /\ g.restore_ret # "none")
            => /\ ~backup[f.version].exists
                  => /\ g.restore_ret = "false"
                     /\ lib' = lib /\ ldcache' = ldcache /\ ~g.ldconfig
                     /\ f.pc = "rollback" => g.outcome = "rollback failed"
               /\ (g.restore_ret = "true" /\ ~f.dry_run)
                  => /\ backup[f.version].exists
                     /\ lib'[f.version] = backup[f.version]
                     /\ lib'[f.version].data = backup[f.version].data
               /\ backup' = backup]_vars

\* C19 witness: a live rollback for a version with a library and no backup
\* has returned with the failure.
C19_Witness ==
  \E p \in SeqProcs :
     LET f == inv[p]
     IN  /\ f.caller = "apply" /\ f.pc = "done" /\ f.rollback /\ ~f.dry_run
         /\ f.restore_ret = "false" /\ f.outcome = "rollback failed"
         /\ ~backup[f.version].exists
         /\ lib[f.version] = f.pre /\ Matchable(f.pre.data)

\* What probe n of the chain gives in the call of frame d.
ProbeYield(d, n) ==
  CASE n = 1 -> SmiVersion(d.smi)
    [] n = 2 -> _detect_version_from_library(d.names)
    [] n = 3 -> ModinfoVersion(d.modinfo)
    [] n = 4 -> DpkgVersion(d.dpkg)

\* C20: without an override _detect_driver_version returns what the first
\* probe in the order nvidia-smi, library filename, modinfo, dpkg that yields
\* a valid version gives, having run the probes before it and none after it,
\* and returns None when all four yield nothing; with an override it returns
\* the override and runs no probe.
C20_FirstProbeWins ==
  det.pc = "returned"
  => IF det.manual_version.some
       THEN det.ret = det.manual_version /\ det.consulted = <<>>
       ELSE LET n == Len(det.consulted)
            IN  /\ n \in 1..Len(Probes)
                /\ det.consulted = SubSeq(Probes, 1, n)
                /\ \A i \in 1..(n - 1) : ~ProbeYield(det, i).some
                /\ det.ret = ProbeYield(det, n)
                /\ ~det.ret.some => n = Len(Probes)

\* C20 witness: nvidia-smi failed, the library names gave 580.126.09, the
\* higher of two, and modinfo, which has a version too, was not run.
C20_Witness ==
  /\ det.pc = "returned" /\ ~det.manual_version.some
  /\ det.consulted = <<"nvidia-smi", "library">>
  /\ det.ret = Some(V580)
  /\ ModinfoVersion(det.modinfo) = Some(V570)

\* A text that is a numeric major.minor or major.minor.patch and nothing else.
StrictVersion(s) ==
  /\ s # <<>>
  /\ (MajorMinorPrefix(s) = Len(s) \/ TriplePrefix(s) = Len(s))

\* C21: every version string _detect_driver_version returns from a probe (no
\* override) is entirely a numeric major.minor or major.minor.patch; a probe
\* output that only starts with one and carries more (trailing text, a line
\* per GPU) is not returned as the version.
C21_StrictVersionReturned ==
  (det.pc = "returned" /\ ~det.manual_version.some /\ det.ret.some)
  => StrictVersion(det.ret.v)

\* The directories the fallback search of _find_encode_library looks into
\* for the library: the listed entries of "/usr" and of "/" whose name starts
\* with "lib" and that are directories.
FallbackCandidates(fs) ==
  {Append(dirname(pre), e) :
     pre \in {FallbackPrefixes[i] : i \in 1..Len(FallbackPrefixes)},
     e \in {n \in {USR, BIN, LIB, LIB64, LIB32, LIBEXEC} :
              startswith(n, LIB)}}
  \cap {d \in fs.dirs : /\ dirname(d) \in {<<USR>>, <<>>}
                        /\ ~fs.listdir[dirname(d)].oserror
                        /\ Listed(fs.listdir[dirname(d)], basename(d))}

C23_LowestUniqueAnchorSelected ==
  \A p \in SeqProcs :
     LET f == inv[p]
     IN  (f.pc = "pb_ret" /\ f.scanned)
         => /\ \A i \in AnchorIds :
                  Selects(f.pre.data, i)
                  => /\ f.plan.anchor = i
                     /\ f.plan.pos = MinOf(Occ(f.pre.data, AnchorBytes(i)))
                     /\ f.result.offset = SiteOf(f.pre.data, i)
            /\ f.plan.anchor # 0 => Selects(f.pre.data, f.plan.anchor)

\* C23 witness: the first and the third anchor both occur exactly once, the
\* third before the first in the file, and the call patched at the first.
C23_Witness ==
  \E p \in SeqProcs :
     LET f == inv[p]
         d == f.pre.data
     IN  /\ f.pc = "pb_ret" /\ f.scanned /\ f.wrote /\ f.result.success
         /\ Cardinality(Occ(d, AnchorBytes(1))) = 1
         /\ Cardinality(Occ(d, AnchorBytes(3))) = 1
         /\ MinOf(Occ(d, AnchorBytes(3))) < MinOf(Occ(d, AnchorBytes(1)))
         /\ f.plan.anchor = 1

\* The result of _patch_binary for a patched marker found by the scan.
AlreadyByMarker(f) ==
  /\ f.result.success /\ f.result.already_patched
  /\ f.result.offset = -1 /\ f.result.variant_label = ""
  /\ f.plan.anchor = 0 /\ f.plan.variant = 0
  /\ ~f.wrote

\* C24 as stated: when an anchor occurs zero times or more than once and that
\* anchor's patched marker occurs in the file, _patch_binary returns the
\* already-patched result (success=true, already_patched=true, offset=-1, no
\* variant label) with no variant and no later anchor examined.
C24_MarkerMeansAlreadyPatched ==
  \A p \in SeqProcs : \A i \in AnchorIds :
     LET f == inv[p]
         d == f.pre.data
     IN  (f.pc = "pb_ret" /\ f.scanned
          /\ Cardinality(Occ(d, AnchorBytes(i))) # 1
          /\ Occ(d, fromhex(_ANCHORS[i].patched_marker)) # {})
         => AlreadyByMarker(f)

\* C24 amended: when an anchor occurs zero times or more than once, its
\* patched marker occurs in the file and no earlier anchor of the table
\* occurs exactly once, _patch_binary returns the already-patched result
\* (success=true, already_patched=true, offset=-1, no variant label) with no
\* variant and no later anchor examined, even if a later anchor occurs
\* exactly once.
C24_MarkerBeforeUniqueAnchor ==
  \A p \in SeqProcs : \A i \in AnchorIds :
     LET f == inv[p]
         d == f.pre.data
     IN  (f.pc = "pb_ret" /\ f.scanned
          /\ Cardinality(Occ(d, AnchorBytes(i))) # 1
          /\ Occ(d, fromhex(_ANCHORS[i].patched_marker)) # {}
          /\ (\A j \in 1..(i - 1) : Cardinality(Occ(d, AnchorBytes(j))) # 1))
         => AlreadyByMarker(f)

\* C24 witness: the first anchor does not occur, its marker does, the second
\* anchor occurs exactly once, and a live call returned already patched.
C24_Witness ==
  \E p \in SeqProcs :
     LET f == inv[p]
         d == f.pre.data
     IN  /\ f.pc = "pb_ret" /\ f.scanned /\ ~f.dry_run
         /\ Occ(d, AnchorBytes(1)) = {}
         /\ Occ(d, fromhex(_ANCHORS[1].patched_marker)) # {}
         /\ Cardinality(Occ(d, AnchorBytes(2))) = 1
         /\ AlreadyByMarker(f)

\* The scanner reports the bytes as already patched.
ReportsAlreadyPatched(data) == PatchPlan(data, TRUE).result.already_patched

\* C25: after any sequence of sequential invocations every backup file in
\* the backup store is a pristine pre-patch copy: no backup holds bytes that
\* the scanner reports as already patched.
C25_BackupsArePristine ==
  \A v \in Versions :
     backup[v].exists => ~ReportsAlreadyPatched(backup[v].data)

\* The whole patched buffer of invocation p is what the library holds.
WriteCompleted(p) ==
  /\ inv[p].wrote
  /\ inv[p].pc \in {"pb_ret", "auto_restore", "done"}
  /\ inv[p].result.success
  /\ lib[inv[p].version].data = inv[p].data

\* C26: the existence check and the copy of _create_backup are not atomic:
\* with two concurrent live invocations on one target and version and no
\* backup at the start, a copy by the second that passed the check and runs
\* after the first invocation's completed patch write replaces the pristine
\* backup the first one made with the patched bytes.
C26_LateCopyStoresPatchedBytes ==
  [][\A p \in Procs : \A q \in Procs \ {p} :
        (/\ inv[q].pc = "backup_copy"
         /\ inv'[q].pc = "pb_read"
         /\ WriteCompleted(p))
        => /\ backup[inv[q].version] = inv[p].pre
           /\ backup'[inv[q].version].data = inv[p].data
           /\ backup'[inv[q].version].data # inv[p].pre.data
           /\ ReportsAlreadyPatched(backup'[inv[q].version].data)]_vars

\* C26 witness: both invocations made a copy, neither had a backup, the first
\* patched a pristine library, and the backup holds the patched bytes.
C26_Witness ==
  \E p \in Procs : \E q \in Procs \ {p} :
     /\ ~inv[p].had_backup /\ ~inv[q].had_backup
     /\ inv[p].wrote /\ inv[p].result.success
     /\ ~ReportsAlreadyPatched(inv[p].pre.data)
     /\ inv[q].backup_ret = "true" /\ inv[q].pc = "pb_read"
     /\ inv[q].pre = inv[p].pre
     /\ backup[TheVersion].exists
     /\ backup[TheVersion].data = inv[p].data
     /\ backup[TheVersion].data # inv[p].pre.data
     /\ ReportsAlreadyPatched(backup[TheVersion].data)

\* The run before the current one was killed between the complete write of
\* the patched bytes and the SONAME re-check, the write destroyed the SONAME,
\* and the current run f resolved the same library.
KilledBeforeRecheck(f) ==
  /\ prev.outcome = "killed" /\ prev.killed_at = "pb_ret"
  /\ prev.version = f.version
  /\ prev.pre.soname # ""
  /\ PatchPlan(prev.pre.data, FALSE).write
  /\ f.pre = File(PatchPlan(prev.pre.data, FALSE).newdata, "")

\* C27: if a live invocation is interrupted after the patched bytes were
\* written and before the SONAME re-check, and the write destroyed the SONAME,
\* the next non-rollback invocation on that library finds the SONAME missing
\* in its pre-flight check and returns there: it makes no backup, scans
\* nothing and writes nothing.
C27_NextRunStopsAtPreflight ==
  \A p \in SeqProcs :
     LET f == inv[p]
     IN  (KilledBeforeRecheck(f) /\ ~f.rollback)
         => /\ f.pc \in {"verify_soname", "done", "killed"}
            /\ f.pc = "done" => (f.outcome = "soname missing"
                                 /\ f.soname_before = "")
            /\ f.pc = "killed" => f.killed_at = "verify_soname"
            /\ f.backup_ret = "none" /\ ~f.scanned /\ ~f.wrote
            /\ lib[f.version] = f.pre
            /\ backup[f.version].exists

\* C27 witness: such a next invocation, live, has returned from its
\* pre-flight check.
C27_Witness ==
  \E p \in SeqProcs :
     LET f == inv[p]
     IN  /\ KilledBeforeRecheck(f) /\ ~f.rollback /\ ~f.dry_run
         /\ f.pc = "done" /\ f.outcome = "soname missing"

\* Invocation p is running in rollback mode.
InRollbackRun(p) ==
  inv[p].rollback /\ inv[p].pc \notin {"idle", "done", "killed"}

\* C28: in rollback mode _apply_nvenc_patch never calls _patch_binary and
\* never creates a backup; the only change it can make to the library is a
\* copy (whole, or cut short by a failure) of an existing backup of the
\* resolved version over it; it goes on to the restore when the pre-flight
\* SONAME is missing; and with dry_run=True it changes nothing.
C28_RollbackFrame ==
  [][\A p \in SeqProcs :
        InRollbackRun(p)
        => LET f == inv[p]
               v == f.version
           IN  /\ backup' = backup
               /\ inv'[p].pc \in {"verify_soname", "rollback", "done", "killed"}
               /\ ~inv'[p].scanned /\ ~inv'[p].wrote
               /\ inv'[p].backup_ret = "none"
               /\ \A w \in Versions \ {v} : lib'[w] = lib[w]
               /\ lib'[v] # lib[v]
                  => /\ ~f.dry_run /\ BackupExists(v)
                     /\ lib'[v] \in {backup[v]} \cup CopyFailures(backup[v], lib[v])
               /\ f.dry_run => (lib' = lib /\ ldcache' = ldcache)
               /\ (f.pc = "verify_soname" /\ _verify_elf_soname(lib[v]) = "")
                  => inv'[p].pc \in {"rollback", "killed"}]_vars

\* C28 witness: a live rollback that found the SONAME missing restored the
\* library from the backup.
C28_Witness ==
  \E p \in SeqProcs :
     LET f == inv[p]
     IN  /\ f.rollback /\ ~f.dry_run
         /\ f.pc = "done" /\ f.outcome = "rollback done"
         /\ f.soname_before = "" /\ f.pre.soname = ""
         /\ lib[f.version] = backup[f.version]
         /\ lib[f.version] # f.pre
         /\ ~f.scanned /\ ~f.wrote /\ f.backup_ret = "none"

\* The bytes of anchor i from offset skip to the anchor's end.
AnchorTail(i) ==
  Slice(AnchorBytes(i), _ANCHORS[i].skip, Len(AnchorBytes(i)))

\* C29: for every anchor of _ANCHORS the anchor bytes from offset skip on are
\* the before-bytes of one of its variants; so whenever _patch_binary selects
\* an anchor some variant's before-bytes are at the patch site, the call never
\* fails with no variant matched, and an already-patched result never comes
\* from the patch site (it has offset -1 and no variant label).
C29_SelectedAnchorAlwaysMatches ==
  \A p \in SeqProcs :
     LET f == inv[p]
         d == f.pre.data
     IN  (f.pc = "pb_ret" /\ f.scanned)
         => /\ \A i \in AnchorIds :
                  \E k \in 1..Len(_ANCHORS[i].variants) :
                     OldBytes(i, k) = AnchorTail(i)
            /\ f.plan.anchor # 0
               => /\ f.plan.variant # 0
                  /\ FirstVariant(d, f.plan.anchor, f.plan.variant)
                  /\ f.plan.result.message \in {"dry-run", "patched"}
            /\ f.plan.result.message # "no variant matched"
            /\ f.result.message # "no variant matched"
            /\ f.result.already_patched
               => (f.plan.anchor = 0 /\ f.result.offset = -1
                   /\ f.result.variant_label = "")

\* C29 witness: an anchor with two variants was selected at a site where the
\* longer variant's before-bytes are not, and the shorter variant matched.
C29_Witness ==
  \E p \in SeqProcs :
     LET f == inv[p]
         d == f.pre.data
     IN  /\ f.pc = "pb_ret" /\ f.scanned /\ f.wrote /\ f.result.success
         /\ f.plan.anchor = 3 /\ f.plan.variant = 2
         /\ Slice(d, SiteOf(d, 3), SiteOf(d, 3) + Len(OldBytes(3, 1)))
               # OldBytes(3, 1)
         /\ Slice(d, SiteOf(d, 3), SiteOf(d, 3) + Len(OldBytes(3, 2)))
               = AnchorTail(3)

\* The limit the driver major m has by the thresholds 590 and 531.
LimitByMajor(m) == IF m >= 590 THEN 12 ELSE IF m >= 531 THEN 5 ELSE 3

\* C30: for a GPU that is neither professional nor already patched and a
\* detected driver version with major M, get_nvenc_session_info reports
\* native_limit 12 when M >= 590, 5 when 531 <= M < 590 and 3 when M < 531,
\* never less than for a smaller major, and patch_useful=true; for a
\* professional or already-patched GPU it reports native_limit=None and
\* patch_useful=false.
C30_NativeLimitByMajor ==
  info.pc = "returned"
  => LET r == info.ret
         M == MajorOf(info.detected.v)
     IN  /\ (r.is_professional \/ r.is_patched)
            => (r.native_limit = NoLimit /\ ~r.patch_useful)
         /\ r.is_professional = info.professional
         /\ (~r.is_professional /\ ~r.is_patched /\ info.detected.some)
            => /\ r.native_limit = Limit(LimitByMajor(M))
               /\ r.patch_useful
               /\ \A w \in InfoVersions :
                     (w.some /\ MajorOf(w.v) <= M)
                     => NativeLimit(MajorOf(w.v)).limit <= r.native_limit.n

\* C30 witness: majors 590, 531 and 530 are among the versions, and the call
\* returned 12 for a GPU with driver major 590, not professional, whose
\* library is there and not patched.
C30_Witness ==
  /\ info.pc = "returned"
  /\ ~info.professional /\ info.found.exists /\ ~info.ret.is_patched
  /\ info.detected.some /\ MajorOf(info.detected.v) = 590
  /\ info.ret.native_limit = Limit(12) /\ info.ret.patch_useful
  /\ \E w \in InfoVersions : w.some /\ MajorOf(w.v) = 531
  /\ \E w \in InfoVersions : w.some /\ MajorOf(w.v) = 530

====
